---- MODULE Spec2Model ----
(***************************************************************************)
(* Route discovery and manifest reconciliation of chutes-wrappers:         *)
(*   tools/discover_routes.py       (discovery run, extraction, docker)    *)
(*   tools/create_chute_from_image.py (perform_live_discovery)             *)
(*   tools/chute_wrappers.py        (manifest merge, route registration)   *)
(*                                                                         *)
(* Python strings that the code inspects character by character (paths)    *)
(* are sequences of one-character strings; strings the code only compares  *)
(* or re-cases as a whole (HTTP method names) are TLA+ strings.            *)
(***************************************************************************)
EXTENDS Integers, Sequences, FiniteSets, TLC

VARIABLES
    \* ---- one discovery run (discover_routes.py / create_chute_from_image.py)
    fn,            \* the running function, or "none" before the run begins
    pc,            \* position of the run in its code
    ports,         \* the container ports of the run, in probing order
    idx,           \* index in ports of the port the loop is at
    container_id,  \* what start_container returned, NoId before/without it
    present,       \* the containers that exist in the docker daemon
    created,       \* the containers this run's `docker run` created
    trace,         \* the calls made so far, in order
    routes,        \* discover: routes / live: discovered_routes
    handled_ports, \* live: the ports that yielded routes
    spec,          \* the schema fetch_spec_with_retry returned for ports[idx]
    exc,           \* the exception in flight, NoExc when none
    outcome,       \* how the run ended: "none", "returned", "raised"
    \* ---- extract_routes applied to one schema
    x_spec, x_port, x_out, x_pc,
    \* ---- load_route_manifest: the static-route merge
    m_manifest, m_static, m_out, m_pc,
    \* ---- register_passthrough_routes
    r_routes, r_cords, r_pc,
    \* ---- load_route_manifest, whole, and the registration that follows
    l_skip,        \* os.getenv("CHUTES_SKIP_ROUTE_REGISTRATION")
    l_inline,      \* os.getenv(manifest_env)
    l_file,        \* the file at manifest_path: whether it exists, its text
    l_written,     \* the routes write_manifest persisted there, if it did
    l_static,      \* the static_routes argument
    l_reads,       \* the manifest sources parsed so far, in order
    l_result,      \* what the call returned or raised
    l_cords,       \* the cords registered from the returned routes
    l_pc,
    \* ---- wait_for_services / probe_services and _wait_for_port
    w_fn,          \* the function called
    w_ports,       \* its ports argument
    w_host,        \* its host argument
    w_timeout,     \* its timeout argument, in seconds
    w_soft,        \* soft_fail
    w_i,           \* index in w_ports of the port the for loop is at
    w_now,         \* the event loop's clock, in seconds
    w_deadline,    \* deadline of the _wait_for_port call in progress
    w_attempts,    \* the connection attempts made: [i, ok]
    w_errors,      \* errors, the list wait_for_services builds
    w_exc,         \* the exception wait_for_services raised, NoTimeout if none
    w_pc,
    \* ---- fetch_spec / fetch_spec_with_retry
    f_fn,          \* the function called
    f_base_url,    \* its base_url argument
    f_paths,       \* its probe_paths argument
    f_timeout,     \* timeout of fetch_spec_with_retry, in seconds
    f_now,         \* time.time(), in seconds since the call
    f_deadline,    \* deadline of fetch_spec_with_retry
    f_attempt,     \* the fetch_spec calls made so far
    f_k,           \* index in f_paths of the next candidate
    f_requested,   \* the GET requests made: [attempt, probe]
    f_resp,        \* what the last request met
    f_last_exc,    \* last_exc of fetch_spec_with_retry
    f_result,      \* what the call returned or raised
    f_pc,
    \* ---- two concurrent start_container calls (pick_host_port, docker run)
    a_ports, a_tries, a_map, a_pc, a_cid, a_foreign, a_state, a_pub, a_torn,
    \* ---- generate_route_code over the discovered routes, one name_tracker
    n_routes, n_i, n_tracker, n_names, n_pc

dvars == <<fn, pc, ports, idx, container_id, present, created, trace, routes,
           handled_ports, spec, exc, outcome>>
xvars == <<x_spec, x_port, x_out, x_pc>>
mvars == <<m_manifest, m_static, m_out, m_pc>>
rvars == <<r_routes, r_cords, r_pc>>
lvars == <<l_skip, l_inline, l_file, l_written, l_static, l_reads, l_result,
           l_cords, l_pc>>
wvars == <<w_fn, w_ports, w_host, w_timeout, w_soft, w_i, w_now, w_deadline,
           w_attempts, w_errors, w_exc, w_pc>>
fvars == <<f_fn, f_base_url, f_paths, f_timeout, f_now, f_deadline, f_attempt,
           f_k, f_requested, f_resp, f_last_exc, f_result, f_pc>>
avars == <<a_ports, a_tries, a_map, a_pc, a_cid, a_foreign, a_state, a_pub, a_torn>>
nvars == <<n_routes, n_i, n_tracker, n_names, n_pc>>
vars == <<dvars, xvars, mvars, rvars, lvars, wvars, fvars, avars, nvars>>

\* the variables a component leaves alone
others_d == <<xvars, mvars, rvars, lvars, wvars, fvars, avars, nvars>>
others_x == <<dvars, mvars, rvars, lvars, wvars, fvars, avars, nvars>>
others_m == <<dvars, xvars, rvars, lvars, wvars, fvars, avars, nvars>>
others_r == <<dvars, xvars, mvars, lvars, wvars, fvars, avars, nvars>>
others_l == <<dvars, xvars, mvars, rvars, wvars, fvars, avars, nvars>>
others_w == <<dvars, xvars, mvars, rvars, lvars, fvars, avars, nvars>>
others_f == <<dvars, xvars, mvars, rvars, lvars, wvars, avars, nvars>>
others_a == <<dvars, xvars, mvars, rvars, lvars, wvars, fvars, nvars>>
others_n == <<dvars, xvars, mvars, rvars, lvars, wvars, fvars, avars>>

(***************************************************************************)
(* Bounds of the model.                                                    *)
(***************************************************************************)
MaxPorts == 2   \* ports probed in one discovery run
MaxPaths == 2   \* paths in one schema's `paths` mapping
MaxMethods == 2   \* method keys under one path
MaxManifest == 2   \* routes loaded from the manifest
MaxStatic == 2   \* routes in static_routes
MaxMergeTotal == 3   \* manifest routes plus static routes
MaxPathLen == 2   \* length of a generated path string
MaxRegRoutes == 1   \* sample routes ahead of the generated one
MaxLoadStatic == 1   \* static_routes of a whole load_route_manifest call
MaxWaitPorts == 2   \* ports of one wait_for_services call
MaxTimeout == 2   \* timeout argument of a port wait, in seconds
MaxProbePaths == 2   \* candidate paths of one fetch_spec call
MaxFetchTimeout == 6   \* timeout argument of fetch_spec_with_retry, in seconds
MaxRequestTime == 1   \* seconds one GET request may take

(***************************************************************************)
(* Sequence and string helpers.                                            *)
(***************************************************************************)
SeqUpTo(S, n) == UNION {[1..k -> S] : k \in 0..n}

DistinctSeqUpTo(S, n) ==
    {s \in SeqUpTo(S, n) : \A i, j \in 1..Len(s) : i # j => s[i] # s[j]}

\* `c in s` for a one-character c
Contains(s, c) == \E i \in 1..Len(s) : s[i] = c

\* s.startswith(prefix)
StartsWith(s, prefix) ==
    /\ Len(prefix) <= Len(s)
    /\ \A i \in 1..Len(prefix) : s[i] = prefix[i]

\* s.rstrip(c)
RECURSIVE RStrip(_, _)
RStrip(s, c) ==
    IF s # <<>> /\ s[Len(s)] = c THEN RStrip(SubSeq(s, 1, Len(s) - 1), c) ELSE s

\* The path strings the model names.
P_a == <<"/", "a">>
P_b == <<"/", "b">>
P_t == <<"/", "t">>
P_health == <<"/", "h">>

(***************************************************************************)
(* HTTP method names.  NoMethod stands for a route dict without a          *)
(* "method" key.                                                           *)
(***************************************************************************)
NoMethod == "<absent>"

\* str.upper() on a method name
Upper(m) ==
    CASE m \in {"get", "GET", "Get"}    -> "GET"
      [] m \in {"post", "POST"}         -> "POST"
      [] m \in {"put", "PUT"}           -> "PUT"
      [] m \in {"patch", "PATCH"}       -> "PATCH"
      [] m \in {"delete", "DELETE"}     -> "DELETE"
      [] m \in {"options", "OPTIONS"}   -> "OPTIONS"
      [] m \in {"head", "HEAD"}         -> "HEAD"

\* str.lower() on a method name
Lower(m) ==
    CASE m \in {"get", "GET", "Get"}    -> "get"
      [] m \in {"post", "POST"}         -> "post"
      [] m \in {"put", "PUT"}           -> "put"
      [] m \in {"patch", "PATCH"}       -> "patch"
      [] m \in {"delete", "DELETE"}     -> "delete"
      [] m \in {"options", "OPTIONS"}   -> "options"
      [] m \in {"head", "HEAD"}         -> "head"

(***************************************************************************)
(* extract_routes (discover_routes.py:46-63).                              *)
(*                                                                         *)
(* A schema's `paths` mapping is a sequence of [path, methods] in the      *)
(* dict's iteration order, with distinct paths; `methods` is a sequence of *)
(* [method, has_stream, x_stream] with distinct method keys: has_stream    *)
(* says whether the operation carries an "x-stream" key, x_stream is the   *)
(* key's value.                                                            *)
(***************************************************************************)

\* the set literal of line 52
SupportedLower == {"get", "post", "put", "patch", "delete"}

\* MethodSupported without the lower(): the key is compared as written
MethodSupportedCaseSensitive(method) == method \in SupportedLower

\* line 52, negated: the method key is kept
MethodSupported(method) == Lower(method) \in SupportedLower

\* line 60: definition.get("x-stream", False)
OperationStream(definition) ==
    IF definition.has_stream THEN definition.x_stream ELSE FALSE

\* RouteOf without the upper(): the method key is copied as written
RouteOfRawMethod(path, definition, default_port) ==
    [path        |-> path,
     method      |-> definition.method,
     port        |-> default_port,
     target_path |-> path,
     stream      |-> OperationStream(definition)]

\* lines 55-61: the dict appended for one (path, method) pair
RouteOf(path, definition, default_port) ==
    [path        |-> path,
     method      |-> Upper(definition.method),
     port        |-> default_port,
     target_path |-> path,
     stream      |-> OperationStream(definition)]

\* lines 51-62: the inner loop over one path's methods
RECURSIVE ExtractMethods(_, _, _)
ExtractMethods(path, methods, default_port) ==
    IF methods = <<>> THEN <<>>
    ELSE (IF MethodSupported(Head(methods).method)
             THEN <<RouteOf(path, Head(methods), default_port)>>
             ELSE <<>>)
         \o ExtractMethods(path, Tail(methods), default_port)

\* lines 48-63: the outer loop over the paths
RECURSIVE extract_routes(_, _)
extract_routes(paths, default_port) ==
    IF paths = <<>> THEN <<>>
    ELSE ExtractMethods(Head(paths).path, Head(paths).methods, default_port)
         \o extract_routes(Tail(paths), default_port)

(***************************************************************************)
(* SpecExtract: extract_routes applied to every schema within the bounds.  *)
(***************************************************************************)
PortValues == {9001, 9002}

MethodKeys == {"get", "POST", "options"}

Definitions ==
    {d \in [method : MethodKeys, has_stream : BOOLEAN, x_stream : BOOLEAN] :
        ~d.has_stream => ~d.x_stream}

MethodMaps ==
    {ms \in SeqUpTo(Definitions, MaxMethods) :
        \A i, j \in 1..Len(ms) : i # j => ms[i].method # ms[j].method}

\* every `paths` mapping of at most MaxPaths distinct paths
ExtractInit ==
    /\ \E ps \in DistinctSeqUpTo({P_a, P_b}, MaxPaths) :
          \E ms \in [1..Len(ps) -> MethodMaps] :
              x_spec = [i \in 1..Len(ps) |->
                           [path |-> ps[i], methods |-> ms[i]]]
    /\ x_port \in PortValues
    /\ x_out = <<>>
    /\ x_pc = "input"

ExtractIdle ==
    /\ x_spec = <<>>
    /\ x_port = 9001
    /\ x_out = <<>>
    /\ x_pc = "off"

\* routes = extract_routes(spec, port)
ExtractRoutes ==
    /\ x_pc = "input"
    /\ x_out' = extract_routes(x_spec, x_port)
    /\ x_pc' = "done"
    /\ UNCHANGED <<x_spec, x_port>>
    /\ UNCHANGED others_x

(***************************************************************************)
(* load_route_manifest: the merge of static_routes into the routes loaded  *)
(* from the manifest (chute_wrappers.py:448-474).                          *)
(*                                                                         *)
(* A route dict is [path, method, port, target_path, stream]; method is    *)
(* NoMethod when the dict has no "method" key.                             *)
(***************************************************************************)

\* route.get("method", "GET")
RouteMethod(route) == IF route.method = NoMethod THEN "GET" ELSE route.method

\* lines 450, 453: (route["path"], route.get("method", "GET").upper())
RouteKey(route) == <<route.path, Upper(RouteMethod(route))>>

\* line 450: the dict comprehension; a later route of the same key replaces
\* an earlier one
ExistingOf(rs) ==
    [k \in {RouteKey(rs[i]) : i \in 1..Len(rs)} |->
        LET last == CHOOSE i \in 1..Len(rs) :
                        /\ RouteKey(rs[i]) = k
                        /\ \A j \in 1..Len(rs) : RouteKey(rs[j]) = k => j <= i
        IN  rs[last]]

\* Differs without the target_path comparison
DiffersPortOnly(route, existing_route) == route.port # existing_route.port

\* lines 457-458
Differs(route, existing_route) ==
    \/ route.port # existing_route.port
    \/ route.target_path # existing_route.target_path

\* MergeStep with a new declared route put at the front of the list
MergeStepPrepend(acc, route) ==
    LET key == RouteKey(route) IN
    IF key \in DOMAIN acc.existing
    THEN IF Differs(route, acc.existing[key])
         THEN [acc EXCEPT !.warnings =
                  Append(@, [key |-> key, static |-> route,
                             discovered |-> acc.existing[key]])]
         ELSE [acc EXCEPT !.duplicates = Append(@, key)]
    ELSE [acc EXCEPT !.routes = <<route>> \o @,
                     !.existing = (key :> route) @@ @]

\* MergeStep without line 467: an appended route is not entered in existing
MergeStepNoRecord(acc, route) ==
    LET key == RouteKey(route) IN
    IF key \in DOMAIN acc.existing
    THEN IF Differs(route, acc.existing[key])
         THEN [acc EXCEPT !.warnings =
                  Append(@, [key |-> key, static |-> route,
                             discovered |-> acc.existing[key]])]
         ELSE [acc EXCEPT !.duplicates = Append(@, key)]
    ELSE [acc EXCEPT !.routes = Append(@, route)]

\* lines 453-467: the loop body for one static route
MergeStep(acc, route) ==
    LET key == RouteKey(route) IN
    IF key \in DOMAIN acc.existing
    THEN IF Differs(route, acc.existing[key])
         THEN [acc EXCEPT !.warnings =
                  Append(@, [key |-> key, static |-> route,
                             discovered |-> acc.existing[key]])]
         ELSE [acc EXCEPT !.duplicates = Append(@, key)]
    ELSE [acc EXCEPT !.routes = Append(@, route),
                     !.existing = (key :> route) @@ @]

\* lines 452-467: the loop over static_routes
RECURSIVE MergeLoop(_, _)
MergeLoop(acc, static_routes) ==
    IF static_routes = <<>> THEN acc
    ELSE MergeLoop(MergeStep(acc, Head(static_routes)), Tail(static_routes))

\* MergeInit with the manifest's routes run through the dedup themselves
MergeInitDedup(rs) ==
    MergeLoop([routes |-> <<>>, existing |-> <<>>, warnings |-> <<>>,
               duplicates |-> <<>>], rs)

\* lines 450-451: the state the loop starts from
MergeInit(rs) ==
    [routes |-> rs, existing |-> ExistingOf(rs), warnings |-> <<>>,
     duplicates |-> <<>>]

\* lines 448-474.  static_routes = None and static_routes = [] are both
\* falsy at line 449 and are both the empty sequence here.
MergeStaticRoutes(rs, static_routes) ==
    IF static_routes # <<>>
    THEN MergeLoop(MergeInit(rs), static_routes)
    ELSE [MergeInit(rs) EXCEPT !.existing = <<>>]

(***************************************************************************)
(* SpecMerge: the merge applied to every manifest and static_routes within *)
(* the bounds.                                                             *)
(***************************************************************************)
\* Routes on both ports that forward to their own path, and one that
\* forwards to another target path.
ManifestRoutes ==
    {[path |-> p, method |-> m, port |-> n, target_path |-> p,
      stream |-> FALSE] :
        p \in {P_a, P_b}, m \in {"get", "POST", NoMethod}, n \in PortValues}
    \cup {[path |-> P_a, method |-> "get", port |-> 9001,
           target_path |-> P_t, stream |-> FALSE]}

Min(a, b) == IF a <= b THEN a ELSE b

MergeStart ==
    /\ \E d \in SeqUpTo(ManifestRoutes, MaxManifest) :
          \E s \in SeqUpTo(ManifestRoutes,
                           Min(MaxStatic, MaxMergeTotal - Len(d))) :
              m_manifest = d /\ m_static = s
    /\ m_out = MergeInit(<<>>)
    /\ m_pc = "input"

MergeIdle ==
    /\ m_manifest = <<>>
    /\ m_static = <<>>
    /\ m_out = MergeInit(<<>>)
    /\ m_pc = "off"

\* load_route_manifest(static_routes = m_static) with the manifest holding
\* m_manifest, from line 448 to the return
LoadRouteManifestMerge ==
    /\ m_pc = "input"
    /\ m_out' = MergeStaticRoutes(m_manifest, m_static)
    /\ m_pc' = "done"
    /\ UNCHANGED <<m_manifest, m_static>>
    /\ UNCHANGED others_m

(***************************************************************************)
(* register_passthrough_routes (chute_wrappers.py:477-521, 653-686).       *)
(***************************************************************************)
Prefix_static == <<"/", "s", "t", "a", "t", "i", "c">>
Prefix_assets == <<"/", "a", "s", "s", "e", "t", "s">>
Prefix_svelte == <<"/", "s", "v", "e", "l", "t", "e">>
Prefix_login == <<"/", "l", "o", "g", "i", "n">>
Prefix_logout == <<"/", "l", "o", "g", "o", "u", "t">>
Prefix_gradio_api == <<"/", "g", "r", "a", "d", "i", "o", "_", "a", "p", "i">>
Prefix_theme == <<"/", "t", "h", "e", "m", "e">>
Prefix_private == <<"/", "_", "_">>

\* lines 494-503
SKIP_PATH_PREFIXES ==
    {Prefix_static, Prefix_assets, Prefix_svelte, Prefix_login,
     Prefix_logout, Prefix_gradio_api, Prefix_theme, Prefix_private}

\* line 504
SKIP_PATHS_EXACT == {<<"/">>, <<>>}

P_static_app_js == <<"/", "s", "t", "a", "t", "i", "c", "/", "a", "p", "p", ".", "j", "s">>
P_items_id == <<"/", "i", "t", "e", "m", "s", "/", "{", "i", "d", "}">>
P_root == <<"/">>
P_empty == <<>>
P_a_html == <<"/", "a", ".", "h", "t", "m", "l">>
P_generate == <<"/", "g", "e", "n", "e", "r", "a", "t", "e">>
P_v1_chat == <<"/", "v", "1", "/", "c", "h", "a", "t">>
P_login == <<"/", "l", "o", "g", "i", "n">>
P_theme_x == <<"/", "t", "h", "e", "m", "e", "/", "x">>
P_private == <<"/", "_", "_", "a">>
P_slashes == <<"/", "/">>
P_gradio == <<"/", "g", "r", "a", "d", "i", "o", "_", "a", "p", "i", "/">>

NoReason == "None"

\* ShouldSkipRoute without the test for a dot
ShouldSkipRouteNoDot(path) ==
    IF Contains(path, "{") \/ Contains(path, "}") THEN "path parameter"
    ELSE IF path \in SKIP_PATHS_EXACT THEN "root/empty path"
    ELSE IF \E prefix \in SKIP_PATH_PREFIXES :
                \/ StartsWith(path, prefix)
                \/ StartsWith(RStrip(path, "/"), prefix)
         THEN "internal/UI route"
    ELSE NoReason

\* _should_skip_route, lines 507-521
ShouldSkipRoute(path) ==
    IF Contains(path, "{") \/ Contains(path, "}") THEN "path parameter"
    ELSE IF Contains(path, ".") THEN "file extension in path"
    ELSE IF path \in SKIP_PATHS_EXACT THEN "root/empty path"
    ELSE IF \E prefix \in SKIP_PATH_PREFIXES :
                \/ StartsWith(path, prefix)
                \/ StartsWith(RStrip(path, "/"), prefix)
         THEN "internal/UI route"
    ELSE NoReason

\* _register_single_route, lines 653-686, for a route dict with the
\* manifest's keys (no "cord", "public_api_path", "internal_path",
\* "function_name", "passthrough_*" key): the keyword arguments of the
\* chute.cord call and the handler's __name__
RegisterSingleRoute(route, index, default_port) ==
    [path              |-> route.path,
     public_api_path   |-> route.path,
     public_api_method |-> Upper(RouteMethod(route)),
     method            |-> Upper(RouteMethod(route)),
     passthrough       |-> TRUE,
     passthrough_port  |-> route.port,
     passthrough_path  |-> route.target_path,
     stream            |-> route.stream,
     function_name     |-> <<"c", "o", "r", "d", "_">> \o route.path]

\* lines 481-488: the loop, `registered` being the count so far
RECURSIVE RegisterLoop(_, _, _)
RegisterLoop(rs, registered, default_port) ==
    IF rs = <<>> THEN <<>>
    ELSE IF ShouldSkipRoute(Head(rs).path) # NoReason
         THEN RegisterLoop(Tail(rs), registered, default_port)
         ELSE <<RegisterSingleRoute(Head(rs), registered, default_port)>>
              \o RegisterLoop(Tail(rs), registered + 1, default_port)

\* lines 477-489: the cords the call registers with the chute, in order
register_passthrough_routes(rs, default_port) ==
    IF rs = <<>> THEN <<>> ELSE RegisterLoop(rs, 0, default_port)

(***************************************************************************)
(* SpecRegister: registration of every manifest made of sample routes      *)
(* followed by at most one route with a generated path.                    *)
(***************************************************************************)
PathChars == {"/", "{", "}", ".", "_", "a"}

GeneratedPaths == SeqUpTo(PathChars, MaxPathLen)

SamplePaths ==
    {P_static_app_js, P_items_id, P_root, P_empty, P_a_html, P_generate,
     P_v1_chat, P_login, P_theme_x, P_private, P_slashes, P_gradio, P_a}

RegRoute(path, method) ==
    [path |-> path, method |-> method, port |-> 9001, target_path |-> path,
     stream |-> FALSE]

SampleRoutes == {RegRoute(p, m) : p \in SamplePaths, m \in {"GET", "POST"}}

GeneratedRoutes == {RegRoute(p, "GET") : p \in GeneratedPaths}

RegisterStart ==
    /\ \E head \in SeqUpTo(SampleRoutes, MaxRegRoutes),
          last \in {<<>>} \cup {<<g>> : g \in GeneratedRoutes} :
            r_routes = head \o last
    /\ r_cords = <<>>
    /\ r_pc = "loaded"

RegisterIdle ==
    /\ r_routes = <<>>
    /\ r_cords = <<>>
    /\ r_pc = "off"

\* register_passthrough_routes(chute, routes, default_port), called on the
\* same chute a first and a second time: the function reads no flag and
\* keeps no record of an earlier call, each call makes its chute.cord calls
RegisterPassthroughRoutes ==
    /\ r_pc \in {"loaded", "registered"}
    /\ r_cords' = r_cords \o register_passthrough_routes(r_routes, 9001)
    /\ r_pc' = IF r_pc = "loaded" THEN "registered" ELSE "registered_again"
    /\ UNCHANGED r_routes
    /\ UNCHANGED others_r

(***************************************************************************)
(* One discovery run: discover_from_chute_file (discover_routes.py:153-204)*)
(* or perform_live_discovery (create_chute_from_image.py:303-332), with    *)
(* start_container (225-262), stop_container (265-267) and the probes.     *)
(*                                                                         *)
(* What docker, the network and the probed service answer is chosen        *)
(* nondeterministically among the answers the code provides for.           *)
(***************************************************************************)
NoId == "none"
NoExc == "none"

\* The exception classes the except clauses tell apart: RuntimeError, the
\* other subclasses of Exception (CalledProcessError, TypeError,
\* AttributeError), and KeyboardInterrupt, which is no subclass of Exception.
ExceptionSubclasses == {"RuntimeError", "CalledProcessError", "TypeError",
                        "AttributeError"}

NoSpec == [kind |-> "none", paths |-> <<>>]
MalformedSpec == [kind |-> "malformed", paths |-> <<>>]

\* The schemas a probed port may serve: no path, GET /h, and /a with a
\* streaming POST and an OPTIONS operation.
DiscoverSchemas ==
    {[kind |-> "schema", paths |-> <<>>],
     [kind |-> "schema",
      paths |-> <<[path |-> P_health,
                   methods |-> <<[method |-> "get", has_stream |-> FALSE,
                                  x_stream |-> FALSE]>>]>>],
     [kind |-> "schema",
      paths |-> <<[path |-> P_a,
                   methods |-> <<[method |-> "POST", has_stream |-> TRUE,
                                  x_stream |-> TRUE],
                                 [method |-> "options", has_stream |-> FALSE,
                                  x_stream |-> FALSE]>>]>>]}

\* The container ports a deployment file may list (SERVICE_PORTS, or the
\* sorted set of its *_PORT values): distinct ports.
DiscoverPorts == {9001, 9002, 9003}

Event(op, id, port, ok) == [op |-> op, id |-> id, port |-> port, ok |-> ok]

\* the calls the spec names probes
ProbeOps == {"get_host_url", "fetch_spec_with_retry"}

DiscoverInit ==
    /\ fn = "none"
    /\ pc = "idle"
    /\ ports = <<>>
    /\ idx = 0
    /\ container_id = NoId
    /\ present \in {{}, {"c0"}}
    /\ created = {}
    /\ trace = <<>>
    /\ routes = <<>>
    /\ handled_ports = {}
    /\ spec = NoSpec
    /\ exc = NoExc
    /\ outcome = "none"

DiscoverIdle ==
    /\ DiscoverInit
    /\ present = {}

\* AfterTry with the cleanup on the normal path only
AfterTryNoFinally(e) == IF e = NoExc THEN "stop" ELSE "finish"

\* discover_routes.py:189,203-204 and create_chute_from_image.py:308,328-329:
\* where control goes when the try block is left, normally (NoExc) or by e
AfterTry(e) == "stop"

\* where control goes when start_container raises: the call is outside the
\* try/finally (discover_routes.py:188, create_chute_from_image.py:307)
StartFailure(f) == "finish"

\* whether an except clause around the probe of one port catches e:
\* `except RuntimeError` (discover_routes.py:196) around the fetch alone,
\* `except Exception` (create_chute_from_image.py:324) around fetch and
\* extraction
ProbeCaught(f, op, e) ==
    IF f = "discover_from_chute_file"
    THEN op = "fetch_spec_with_retry" /\ e = "RuntimeError"
    ELSE e \in ExceptionSubclasses

\* create_chute_from_image.py:330-332: the outer `except Exception`
RunCaught(f, e) == f = "perform_live_discovery" /\ e \in ExceptionSubclasses

\* the variables of the other components that a discovery run leaves alone
\* when it writes os.environ
others_env == <<l_inline, l_file, l_written, l_static, l_reads, l_result,
                l_cords, l_pc, xvars, mvars, rvars, wvars, fvars, avars,
                nvars>>

\* Begin without the assignments to os.environ of lines 163 and 214
BeginKeepsEnviron ==
    /\ pc = "idle"
    /\ \E f \in {"discover_from_chute_file", "perform_live_discovery"},
          ps \in DistinctSeqUpTo(DiscoverPorts, MaxPorts) :
        /\ fn' = f
        /\ ports' = ps
        /\ IF f = "discover_from_chute_file" /\ ps = <<>>
           THEN exc' = "RuntimeError" /\ pc' = "finish"
           ELSE exc' = NoExc /\ pc' = "start"
    /\ UNCHANGED <<idx, container_id, present, created, trace, routes,
                   handled_ports, spec, outcome>>
    /\ UNCHANGED others_d

\* discover_from_chute_file lines 163-187 / perform_live_discovery line 305;
\* lines 163 and 214 set CHUTES_SKIP_ROUTE_REGISTRATION in os.environ
Begin ==
    /\ pc = "idle"
    /\ \E f \in {"discover_from_chute_file", "perform_live_discovery"},
          ps \in DistinctSeqUpTo(DiscoverPorts, MaxPorts) :
        /\ fn' = f
        /\ ports' = ps
        /\ l_skip' = IF f = "discover_from_chute_file" THEN "1" ELSE l_skip
        /\ IF f = "discover_from_chute_file" /\ ps = <<>>
           THEN exc' = "RuntimeError" /\ pc' = "finish"      \* lines 177-178
           ELSE exc' = NoExc /\ pc' = "start"
    /\ UNCHANGED <<idx, container_id, present, created, trace, routes,
                   handled_ports, spec, outcome>>
    /\ UNCHANGED others_env

\* start_container: `docker run` fails (check=True raises) without having
\* created a container (line 242)
StartRunFails ==
    /\ pc = "start"
    /\ trace' = Append(trace, Event("docker_run", NoId, 0, FALSE))
    /\ exc' = "CalledProcessError"
    /\ pc' = StartFailure(fn)
    /\ UNCHANGED <<fn, ports, idx, container_id, present, created, routes,
                   handled_ports, spec, outcome>>
    /\ UNCHANGED others_d

\* start_container: `docker run` (create, then start) creates the container
\* and fails to start it, as when a picked host port was taken in between;
\* without --rm (line 227) the created container stays, and line 242 raises
StartRunFailsAfterCreate ==
    /\ pc = "start"
    /\ present' = present \cup {"c1"}
    /\ created' = created \cup {"c1"}
    /\ trace' = Append(trace, Event("docker_run", "c1", 0, FALSE))
    /\ exc' = "CalledProcessError"
    /\ pc' = StartFailure(fn)
    /\ UNCHANGED <<fn, ports, idx, container_id, routes, handled_ports, spec,
                   outcome>>
    /\ UNCHANGED others_d

\* start_container: the container runs after the grace delay and its id is
\* returned (lines 242-251, 262)
StartReturns ==
    /\ pc = "start"
    /\ present' = present \cup {"c1"}
    /\ created' = created \cup {"c1"}
    /\ container_id' = "c1"
    /\ trace' = trace \o <<Event("docker_run", "c1", 0, TRUE),
                           Event("start_container", "c1", 0, TRUE)>>
    /\ pc' = "wait"
    /\ UNCHANGED <<fn, ports, idx, routes, handled_ports, spec, exc, outcome>>
    /\ UNCHANGED others_d

\* start_container that cleans a crashed container up and returns its id all
\* the same
StartCrashedKeepsHandle ==
    /\ pc = "start"
    /\ created' = created \cup {"c1"}
    /\ \E rm_ok \in BOOLEAN :
        /\ present' = IF rm_ok THEN present \ {"c1"} ELSE present \cup {"c1"}
        /\ trace' = trace \o <<Event("docker_run", "c1", 0, TRUE),
                               Event("docker_logs", "c1", 0, TRUE),
                               Event("docker_rm", "c1", 0, rm_ok)>>
    /\ container_id' = "c1"
    /\ pc' = "wait"
    /\ UNCHANGED <<fn, ports, idx, routes, handled_ports, spec, exc, outcome>>
    /\ UNCHANGED others_d

\* start_container: the container is not running (or cannot be inspected):
\* logs, `docker rm -f` whose failure goes unnoticed, RuntimeError
\* (lines 251-261)
StartCrashed ==
    /\ pc = "start"
    /\ created' = created \cup {"c1"}
    /\ \E rm_ok \in BOOLEAN :
        /\ present' = IF rm_ok THEN present \ {"c1"} ELSE present \cup {"c1"}
        /\ trace' = trace \o <<Event("docker_run", "c1", 0, TRUE),
                               Event("docker_logs", "c1", 0, TRUE),
                               Event("docker_rm", "c1", 0, rm_ok)>>
    /\ exc' = "RuntimeError"
    /\ pc' = StartFailure(fn)
    /\ UNCHANGED <<fn, ports, idx, container_id, routes, handled_ports, spec,
                   outcome>>
    /\ UNCHANGED others_d

\* wait_with_logs (lines 299-307); tail_container_logs swallows every
\* Exception, so only an interrupt of the sleep leaves it by an exception
WaitWithLogs ==
    /\ pc = "wait"
    /\ trace' = Append(trace, Event("wait_with_logs", container_id, 0, TRUE))
    /\ \/ /\ idx' = 1
          /\ pc' = "loop"
          /\ UNCHANGED exc
       \/ /\ exc' = "KeyboardInterrupt"
          /\ pc' = AfterTry("KeyboardInterrupt")
          /\ UNCHANGED idx
    /\ UNCHANGED <<fn, ports, container_id, present, created, routes,
                   handled_ports, spec, outcome>>
    /\ UNCHANGED others_d

\* get_host_url (lines 270-282): `docker port` with check=True; neither
\* function catches its failure inside the loop
GetHostUrl ==
    /\ pc = "loop"
    /\ idx <= Len(ports)
    /\ \/ /\ trace' = Append(trace, Event("get_host_url", container_id,
                                          ports[idx], TRUE))
          /\ pc' = "fetch"
          /\ UNCHANGED exc
       \/ /\ trace' = Append(trace, Event("get_host_url", container_id,
                                          ports[idx], FALSE))
          /\ exc' = "CalledProcessError"
          /\ pc' = AfterTry("CalledProcessError")
    /\ UNCHANGED <<fn, ports, idx, container_id, present, created, routes,
                   handled_ports, spec, outcome>>
    /\ UNCHANGED others_d

\* fetch_spec_with_retry returns a document
FetchReturns ==
    /\ pc = "fetch"
    /\ trace' = Append(trace, Event("fetch_spec_with_retry", container_id,
                                    ports[idx], TRUE))
    /\ spec' \in DiscoverSchemas \cup {MalformedSpec}
    /\ pc' = "extract"
    /\ UNCHANGED <<fn, ports, idx, container_id, present, created, routes,
                   handled_ports, exc, outcome>>
    /\ UNCHANGED others_d

\* fetch_spec_with_retry raises: RuntimeError when no candidate answered in
\* time (lines 294-296), TypeError from `"paths" in data` (line 39) when a
\* candidate serves a JSON number
FetchRaises ==
    /\ pc = "fetch"
    /\ trace' = Append(trace, Event("fetch_spec_with_retry", container_id,
                                    ports[idx], FALSE))
    /\ \E e \in {"RuntimeError", "TypeError"} :
        IF ProbeCaught(fn, "fetch_spec_with_retry", e)
        THEN /\ idx' = idx + 1                      \* continue
             /\ pc' = "loop"
             /\ UNCHANGED exc
        ELSE /\ exc' = e
             /\ pc' = AfterTry(e)
             /\ UNCHANGED idx
    /\ UNCHANGED <<fn, ports, container_id, present, created, routes,
                   handled_ports, spec, outcome>>
    /\ UNCHANGED others_d

\* extract_routes(spec, port) and the extend (discover_routes.py:199,
\* create_chute_from_image.py:319-323); a `paths` entry that is no mapping
\* makes line 51 raise AttributeError
Extract ==
    /\ pc = "extract"
    /\ trace' = Append(trace, Event("extract_routes", container_id,
                                    ports[idx], spec.kind = "schema"))
    /\ IF spec.kind = "schema"
       THEN LET found == extract_routes(spec.paths, ports[idx]) IN
            /\ routes' = routes \o found
            /\ handled_ports' =
                 IF fn = "perform_live_discovery" /\ found # <<>>
                 THEN handled_ports \cup {ports[idx]} ELSE handled_ports
            /\ idx' = idx + 1
            /\ pc' = "loop"
            /\ UNCHANGED exc
       ELSE IF ProbeCaught(fn, "extract_routes", "AttributeError")
            THEN /\ idx' = idx + 1
                 /\ pc' = "loop"
                 /\ UNCHANGED <<routes, handled_ports, exc>>
            ELSE /\ exc' = "AttributeError"
                 /\ pc' = AfterTry("AttributeError")
                 /\ UNCHANGED <<routes, handled_ports, idx>>
    /\ spec' = NoSpec
    /\ UNCHANGED <<fn, ports, container_id, present, created, outcome>>
    /\ UNCHANGED others_d

\* the end of the loop without the check of lines 200-201
LoopEndReturnsEmpty ==
    /\ pc = "loop"
    /\ idx > Len(ports)
    /\ exc' = NoExc
    /\ pc' = AfterTry(NoExc)
    /\ UNCHANGED <<fn, ports, idx, container_id, present, created, trace,
                   routes, handled_ports, spec, outcome>>
    /\ UNCHANGED others_d

\* the loop is over: discover_routes.py:200-202,
\* create_chute_from_image.py:327
LoopEnd ==
    /\ pc = "loop"
    /\ idx > Len(ports)
    /\ IF fn = "discover_from_chute_file" /\ routes = <<>>
       THEN exc' = "RuntimeError" /\ pc' = AfterTry("RuntimeError")
       ELSE exc' = NoExc /\ pc' = AfterTry(NoExc)
    /\ UNCHANGED <<fn, ports, idx, container_id, present, created, trace,
                   routes, handled_ports, spec, outcome>>
    /\ UNCHANGED others_d

\* stop_container with check=True on `docker stop`: a failing stop raises
\* CalledProcessError and the removal is not attempted
StopContainerChecked ==
    /\ pc = "stop"
    /\ \E stop_ok \in BOOLEAN, rm_ok \in BOOLEAN :
        IF stop_ok
        THEN /\ trace' = trace \o
                   <<Event("stop_container", container_id, 0, TRUE),
                     Event("docker_stop", container_id, 0, TRUE),
                     Event("docker_rm", container_id, 0, rm_ok)>>
             /\ present' = IF rm_ok THEN present \ {container_id} ELSE present
             /\ UNCHANGED exc
        ELSE /\ trace' = trace \o
                   <<Event("stop_container", container_id, 0, TRUE),
                     Event("docker_stop", container_id, 0, FALSE)>>
             /\ exc' = "CalledProcessError"
             /\ UNCHANGED present
    /\ pc' = "finish"
    /\ UNCHANGED <<fn, ports, idx, container_id, created, routes,
                   handled_ports, spec, outcome>>
    /\ UNCHANGED others_d

\* stop_container (lines 265-267): `docker stop`, then `docker rm -f`, both
\* with check=False
StopContainer ==
    /\ pc = "stop"
    /\ \E stop_ok \in BOOLEAN, rm_ok \in BOOLEAN :
        /\ trace' = trace \o <<Event("stop_container", container_id, 0, TRUE),
                               Event("docker_stop", container_id, 0, stop_ok),
                               Event("docker_rm", container_id, 0, rm_ok)>>
        /\ present' = IF rm_ok THEN present \ {container_id} ELSE present
    /\ pc' = "finish"
    /\ UNCHANGED <<fn, ports, idx, container_id, created, routes,
                   handled_ports, spec, exc, outcome>>
    /\ UNCHANGED others_d

\* the function returns or raises: discover_routes.py:202 or the exception
\* in flight; create_chute_from_image.py:327 or 330-332
Finish ==
    /\ pc = "finish"
    /\ pc' = "done"
    /\ IF exc = NoExc
       THEN outcome' = "returned" /\ UNCHANGED <<routes, handled_ports>>
       ELSE IF RunCaught(fn, exc)
            THEN outcome' = "returned" /\ routes' = <<>> /\ handled_ports' = {}
            ELSE outcome' = "raised" /\ UNCHANGED <<routes, handled_ports>>
    /\ UNCHANGED <<fn, ports, idx, container_id, present, created, trace,
                   spec, exc>>
    /\ UNCHANGED others_d

DiscoverNext ==
    \/ Begin
    \/ StartRunFails
    \/ StartRunFailsAfterCreate
    \/ StartReturns
    \/ StartCrashed
    \/ WaitWithLogs
    \/ GetHostUrl
    \/ FetchReturns
    \/ FetchRaises
    \/ Extract
    \/ LoopEnd
    \/ StopContainer
    \/ Finish

(***************************************************************************)
(* JSON text, json.dump and json.loads (discover_routes.py:143-150,        *)
(* chute_wrappers.py:641-645).                                             *)
(*                                                                         *)
(* A Python value is a tagged record: dict (items in insertion order),     *)
(* list, str, int, bool or None.  A str carries either its characters (s)  *)
(* or, for the strings the code handles as a whole, the string itself (w). *)
(* A JSON text is the sequence of its tokens, white space left out; the    *)
(* keys of an object are whole strings.                                    *)
(***************************************************************************)
PyNone == [t |-> "null"]
PyBool(b) == [t |-> "bool", b |-> b]
PyInt(n) == [t |-> "int", n |-> n]
PyStr(s) == [t |-> "str", s |-> s, w |-> ""]
PyWord(w) == [t |-> "str", s |-> <<>>, w |-> w]
PyList(items) == [t |-> "list", items |-> items]
PyDict(items) == [t |-> "dict", items |-> items]

\* d[key] = value on the items of a dict
DictSet(items, key, value) ==
    IF \E i \in 1..Len(items) : items[i].k = key
    THEN [i \in 1..Len(items) |->
            IF items[i].k = key THEN [k |-> key, v |-> value] ELSE items[i]]
    ELSE Append(items, [k |-> key, v |-> value])

\* `key in d`
DictHas(d, key) == \E i \in 1..Len(d.items) : d.items[i].k = key

\* d.get(key, default)
DictGet(d, key, default) ==
    IF DictHas(d, key)
    THEN d.items[CHOOSE i \in 1..Len(d.items) : d.items[i].k = key].v
    ELSE default

Tok(t) == [t |-> t, s |-> <<>>, w |-> "", n |-> 0]
TokStr(v) == [t |-> "str", s |-> v.s, w |-> v.w, n |-> 0]
TokKey(k) == [t |-> "str", s |-> <<>>, w |-> k, n |-> 0]
TokNum(n) == [t |-> "num", s |-> <<>>, w |-> "", n |-> n]

\* json.dump(value, fh, indent=2): the tokens written
RECURSIVE DumpValue(_), DumpElements(_), DumpMembers(_)
DumpValue(v) ==
    CASE v.t = "null" -> <<Tok("null")>>
      [] v.t = "bool" -> <<Tok(IF v.b THEN "true" ELSE "false")>>
      [] v.t = "int"  -> <<TokNum(v.n)>>
      [] v.t = "str"  -> <<TokStr(v)>>
      [] v.t = "list" -> <<Tok("[")>> \o DumpElements(v.items) \o <<Tok("]")>>
      [] v.t = "dict" -> <<Tok("{")>> \o DumpMembers(v.items) \o <<Tok("}")>>

DumpElements(items) ==
    IF items = <<>> THEN <<>>
    ELSE DumpValue(Head(items))
         \o (IF Len(items) > 1 THEN <<Tok(",")>> ELSE <<>>)
         \o DumpElements(Tail(items))

DumpMembers(items) ==
    IF items = <<>> THEN <<>>
    ELSE <<TokKey(Head(items).k), Tok(":")>> \o DumpValue(Head(items).v)
         \o (IF Len(items) > 1 THEN <<Tok(",")>> ELSE <<>>)
         \o DumpMembers(Tail(items))

\* The decoder's result: a value and the tokens left, or a failure.
Parsed(v, rest) == [ok |-> TRUE, val |-> v, rest |-> rest]
ParseFail == [ok |-> FALSE, val |-> PyNone, rest |-> <<>>]

\* json.loads: one value, then its elements or members up to the bracket
RECURSIVE ParseValue(_), ParseElements(_, _), ParseMembers(_, _)
ParseValue(ts) ==
    IF ts = <<>> THEN ParseFail
    ELSE LET h == Head(ts)
             r == Tail(ts)
         IN  CASE h.t = "null"  -> Parsed(PyNone, r)
               [] h.t = "true"  -> Parsed(PyBool(TRUE), r)
               [] h.t = "false" -> Parsed(PyBool(FALSE), r)
               [] h.t = "num"   -> Parsed(PyInt(h.n), r)
               [] h.t = "str"   -> Parsed([t |-> "str", s |-> h.s, w |-> h.w], r)
               [] h.t = "["     ->
                    IF r # <<>> /\ Head(r).t = "]"
                    THEN Parsed(PyList(<<>>), Tail(r))
                    ELSE ParseElements(r, <<>>)
               [] h.t = "{"     ->
                    IF r # <<>> /\ Head(r).t = "}"
                    THEN Parsed(PyDict(<<>>), Tail(r))
                    ELSE ParseMembers(r, <<>>)
               [] OTHER         -> ParseFail

ParseElements(ts, acc) ==
    LET e == ParseValue(ts)
    IN  IF ~e.ok \/ e.rest = <<>> THEN ParseFail
        ELSE LET items == Append(acc, e.val)
                 sep == Head(e.rest)
             IN  CASE sep.t = "]" -> Parsed(PyList(items), Tail(e.rest))
                   [] sep.t = "," -> ParseElements(Tail(e.rest), items)
                   [] OTHER       -> ParseFail

ParseMembers(ts, acc) ==
    IF Len(ts) < 2 \/ ts[1].t # "str" \/ ts[2].t # ":"
    THEN ParseFail
    ELSE LET e == ParseValue(SubSeq(ts, 3, Len(ts)))
         IN  IF ~e.ok \/ e.rest = <<>> THEN ParseFail
             ELSE LET items == DictSet(acc, ts[1].w, e.val)
                      sep == Head(e.rest)
                  IN  CASE sep.t = "}" -> Parsed(PyDict(items), Tail(e.rest))
                        [] sep.t = "," -> ParseMembers(Tail(e.rest), items)
                        [] OTHER       -> ParseFail

\* json.loads(raw): the value, or JSONDecodeError when the text is not one
\* JSON value
JSONDecodeError == [t |-> "JSONDecodeError"]

JsonLoads(raw) ==
    LET r == ParseValue(raw)
    IN  IF r.ok /\ r.rest = <<>> THEN r.val ELSE JSONDecodeError

(***************************************************************************)
(* The manifest document: written by write_manifest                        *)
(* (discover_routes.py:143-150) and by main (lines 126-133), parsed by     *)
(* _parse_routes_json (chute_wrappers.py:641-650).                         *)
(***************************************************************************)
\* the route dict of extract_routes (lines 55-61) for a route record; a
\* record whose method is NoMethod is a dict without the "method" key
RouteDict(r) ==
    PyDict(<<[k |-> "path", v |-> PyStr(r.path)]>>
           \o (IF r.method = NoMethod THEN <<>>
               ELSE <<[k |-> "method", v |-> PyWord(r.method)]>>)
           \o <<[k |-> "port", v |-> PyInt(r.port)],
                [k |-> "target_path", v |-> PyStr(r.target_path)],
                [k |-> "stream", v |-> PyBool(r.stream)]>>)

\* the route record of a route dict, as the loader and the registrar read it
\* (route["path"], route.get("method"), route.get("port"), ...)
RouteRecord(d) ==
    [path        |-> DictGet(d, "path", PyStr(<<>>)).s,
     method      |-> DictGet(d, "method", PyWord(NoMethod)).w,
     port        |-> DictGet(d, "port", PyInt(0)).n,
     target_path |-> DictGet(d, "target_path", PyStr(<<>>)).s,
     stream      |-> DictGet(d, "stream", PyBool(FALSE)).b]

\* {"routes": routes, "source": name}, line 203
Payload(rs, source) ==
    PyDict(<<[k |-> "routes", v |-> PyList([i \in 1..Len(rs) |-> RouteDict(rs[i])])],
             [k |-> "source", v |-> PyWord(source)]>>)

\* write_manifest(payload, output) with an output path: the text of the file
write_manifest(payload) == DumpValue(payload)

\* _parse_routes_json(raw): the list it returns, or the ValueError it raises
ParseOk(items) == [ok |-> TRUE, items |-> items, exc |-> "none", cause |-> "none"]
ParseError(cause) == [ok |-> FALSE, items |-> <<>>, exc |-> "ValueError", cause |-> cause]

\* the parser without the unwrapping of lines 646-647
parse_routes_jsonListOnly(raw) ==
    LET loaded == JsonLoads(raw)
    IN  IF loaded = JSONDecodeError THEN ParseError("JSONDecodeError")
        ELSE IF loaded.t # "list" THEN ParseError("shape")
        ELSE ParseOk(loaded.items)

parse_routes_json(raw) ==
    LET loaded == JsonLoads(raw)
    IN  IF loaded = JSONDecodeError THEN ParseError("JSONDecodeError")
        ELSE LET data == IF loaded.t = "dict"
                         THEN DictGet(loaded, "routes", PyList(<<>>))
                         ELSE loaded
             IN  IF data.t # "list" THEN ParseError("shape")
                 ELSE ParseOk(data.items)

(***************************************************************************)
(* load_route_manifest, whole (chute_wrappers.py:411-474).                 *)
(*                                                                         *)
(* An environment variable is NoEnv when unset, else its string; the       *)
(* inline manifest, a JSON text, is [set, text].  manifest_path is the one *)
(* path lines 428-438 settle on; the file there is [exists, text].         *)
(***************************************************************************)
NoEnv == "<unset>"

\* `if value:` on what os.getenv returned
EnvTruthy(value) == value # NoEnv /\ value # ""

LoadReturned(rs, reads) ==
    [kind |-> "returned", routes |-> rs, exc |-> "none", cause |-> "none",
     reads |-> reads]

LoadRaised(e, cause, reads) ==
    [kind |-> "raised", routes |-> <<>>, exc |-> e, cause |-> cause,
     reads |-> reads]

\* lines 448-474 on parsed route dicts
LoadMerge(items, static_routes, reads) ==
    LoadReturned(
        MergeStaticRoutes([i \in 1..Len(items) |-> RouteRecord(items[i])],
                          static_routes).routes,
        reads)

\* lines 441-446 without the skip flag honoured at line 417
LoadFromFile(file, static_routes, reads) ==
    IF file.exists
    THEN LET parsed == parse_routes_json(file.text)
         IN  IF parsed.ok
             THEN LoadMerge(parsed.items, static_routes,
                            reads \o <<"exists", "read_file">>)
             ELSE LoadRaised(parsed.exc, parsed.cause,
                             reads \o <<"exists", "read_file">>)
    ELSE IF static_routes = <<>>
         THEN LoadRaised("RuntimeError", "manifest_path", reads \o <<"exists">>)
         ELSE LoadMerge(<<>>, static_routes, reads \o <<"exists">>)

\* the manifest file taking priority over the inline value
LoadFromSourcesFileFirst(inline, file, static_routes) ==
    IF ~file.exists /\ inline.set /\ inline.text # <<>>
    THEN LET parsed == parse_routes_json(inline.text)
         IN  IF parsed.ok
             THEN LoadMerge(parsed.items, static_routes, <<"getenv_inline">>)
             ELSE LoadRaised(parsed.exc, parsed.cause, <<"getenv_inline">>)
    ELSE LoadFromFile(file, static_routes, <<"getenv_inline">>)

\* lines 423-446
LoadFromSources(inline, file, static_routes) ==
    IF inline.set /\ inline.text # <<>>
    THEN LET parsed == parse_routes_json(inline.text)
         IN  IF parsed.ok
             THEN LoadMerge(parsed.items, static_routes, <<"getenv_inline">>)
             ELSE LoadRaised(parsed.exc, parsed.cause, <<"getenv_inline">>)
    ELSE LoadFromFile(file, static_routes, <<"getenv_inline">>)

\* the call without line 417-418
load_route_manifestNoSkip(skip, inline, file, static_routes) ==
    LoadFromSources(inline, file, static_routes)

\* lines 411-474: what the call returns or raises, and the sources it
\* consulted in order
load_route_manifest(skip, inline, file, static_routes) ==
    IF EnvTruthy(skip) THEN LoadReturned(<<>>, <<>>)
    ELSE LoadFromSources(inline, file, static_routes)

(***************************************************************************)
(* SpecLoad: a manifest may be persisted with write_manifest, then          *)
(* load_route_manifest runs in an environment within the bounds and the    *)
(* routes it returns are registered.                                       *)
(***************************************************************************)
LoadRoutes ==
    {[path |-> P_a, method |-> NoMethod, port |-> 9001, target_path |-> P_a,
      stream |-> FALSE],
     [path |-> P_b, method |-> "post", port |-> 9002, target_path |-> P_t,
      stream |-> TRUE]}

LoadManifests == SeqUpTo(LoadRoutes, MaxManifest)

\* a bare array of route objects
BareDocument(rs) ==
    DumpValue(PyList([i \in 1..Len(rs) |-> RouteDict(rs[i])]))

\* scalars, objects without a `routes` array, and texts that are not JSON
OddDocuments ==
    {DumpValue(PyInt(5)), DumpValue(PyWord("routes")), DumpValue(PyNone),
     DumpValue(PyDict(<<[k |-> "routes", v |-> PyInt(5)]>>)),
     DumpValue(PyDict(<<[k |-> "routes", v |-> PyDict(<<>>)]>>)),
     DumpValue(PyDict(<<[k |-> "routes", v |-> PyNone]>>)),
     DumpValue(PyDict(<<>>)),
     DumpValue(PyDict(<<[k |-> "source", v |-> PyWord("chute")]>>)),
     <<Tok("{"), TokKey("routes"), Tok(":"), Tok("[")>>,
     <<Tok("["), Tok("]"), Tok("]")>>,
     <<Tok("{"), TokKey("routes"), Tok("}")>>}

Documents ==
    {write_manifest(Payload(rs, "chute")) : rs \in LoadManifests}
    \cup {BareDocument(rs) : rs \in LoadManifests}
    \cup OddDocuments

NoFile == [exists |-> FALSE, text |-> <<>>]
NotWritten == [done |-> FALSE, routes |-> <<>>]
NoResult == [kind |-> "none", routes |-> <<>>, exc |-> "none", cause |-> "none",
             reads |-> <<>>]

LoadStart ==
    /\ l_skip \in {NoEnv, "", "1"}
    /\ l_inline \in {[set |-> FALSE, text |-> <<>>]}
                    \cup {[set |-> TRUE, text |-> d] : d \in Documents \cup {<<>>}}
    /\ l_file \in {NoFile} \cup {[exists |-> TRUE, text |-> d] : d \in Documents}
    /\ l_written = NotWritten
    /\ l_static \in SeqUpTo(LoadRoutes, MaxLoadStatic)
    /\ l_reads = <<>>
    /\ l_result = NoResult
    /\ l_cords = <<>>
    /\ l_pc = "input"

LoadIdle ==
    /\ l_skip = NoEnv
    /\ l_inline = [set |-> FALSE, text |-> <<>>]
    /\ l_file = NoFile
    /\ l_written = NotWritten
    /\ l_static = <<>>
    /\ l_reads = <<>>
    /\ l_result = NoResult
    /\ l_cords = <<>>
    /\ l_pc = "off"

\* write_manifest(payload, output) with output = manifest_path, before the
\* service process loads the manifest
WriteManifest ==
    /\ l_pc = "input"
    /\ ~l_written.done
    /\ \E rs \in LoadManifests :
          /\ l_file' = [exists |-> TRUE,
                        text |-> write_manifest(Payload(rs, "chute"))]
          /\ l_written' = [done |-> TRUE, routes |-> rs]
    /\ UNCHANGED <<l_skip, l_inline, l_static, l_reads, l_result, l_cords, l_pc>>
    /\ UNCHANGED others_l

\* routes = load_route_manifest(static_routes=l_static)
LoadRouteManifest ==
    /\ l_pc = "input"
    /\ LET res == load_route_manifest(l_skip, l_inline, l_file, l_static)
       IN  /\ l_result' = res
           /\ l_reads' = res.reads
           /\ l_pc' = IF res.kind = "returned" THEN "loaded" ELSE "raised"
    /\ UNCHANGED <<l_skip, l_inline, l_file, l_written, l_static, l_cords>>
    /\ UNCHANGED others_l

\* register_passthrough_routes(chute, routes, default_port) on the routes
\* the load returned
RegisterLoaded ==
    /\ l_pc = "loaded"
    /\ l_cords' = register_passthrough_routes(l_result.routes, 9001)
    /\ l_pc' = "registered"
    /\ UNCHANGED <<l_skip, l_inline, l_file, l_written, l_static, l_reads,
                   l_result>>
    /\ UNCHANGED others_l

(***************************************************************************)
(* _wait_for_port (chute_wrappers.py:694-707) under wait_for_services and  *)
(* probe_services (lines 524-544).                                         *)
(*                                                                         *)
(* Time is the event loop's clock in whole seconds.  Whether a connection  *)
(* attempt succeeds and how long it takes is the network's choice.         *)
(***************************************************************************)
LOCAL_HOST == "127.0.0.1"

NoTimeout == [exc |-> "none", host |-> "none", port |-> 0]

\* RuntimeError(f"Timed out waiting for {host}:{port}"), line 706
PortTimeout(host, port) == [exc |-> "RuntimeError", host |-> host, port |-> port]

\* f"{host}:{port} {exc}", line 537
ErrorString(host, port, e) == [host |-> host, port |-> port, exc |-> e]

\* a wait that gives up at the first failed attempt
DeadlinePassedAtOnce(now, deadline) == TRUE

\* the test of line 705 with > instead of >=
DeadlinePassedStrict(now, deadline) == now > deadline

\* the test of line 705, made with the clock read after the failed attempt
DeadlinePassed(now, deadline) == now >= deadline

WaitPorts == {8001, 8002}

\* a connection attempt ends within the second or takes a second
ConnectTimes == {0, 1}

WaitStart ==
    /\ w_fn \in {"wait_for_services", "probe_services"}
    /\ w_ports \in SeqUpTo(WaitPorts, MaxWaitPorts)
    /\ w_host = LOCAL_HOST
    /\ w_timeout \in 0..MaxTimeout
    /\ w_soft \in (IF w_fn = "probe_services" THEN {TRUE} ELSE BOOLEAN)
    /\ w_i = 1
    /\ w_now = 0
    /\ w_deadline = 0
    /\ w_attempts = <<>>
    /\ w_errors = <<>>
    /\ w_exc = NoTimeout
    /\ w_pc = "for"

WaitIdle ==
    /\ w_fn = "none"
    /\ w_ports = <<>>
    /\ w_host = "none"
    /\ w_timeout = 0
    /\ w_soft = FALSE
    /\ w_i = 1
    /\ w_now = 0
    /\ w_deadline = 0
    /\ w_attempts = <<>>
    /\ w_errors = <<>>
    /\ w_exc = NoTimeout
    /\ w_pc = "off"

\* lines 532-534 and 697: the next port of the for loop; _wait_for_port is
\* entered and computes its deadline
WaitForPortEnter ==
    /\ w_pc = "for"
    /\ w_i <= Len(w_ports)
    /\ w_deadline' = w_now + w_timeout
    /\ w_pc' = "connect"
    /\ UNCHANGED <<w_fn, w_ports, w_host, w_timeout, w_soft, w_i, w_now,
                   w_attempts, w_errors, w_exc>>
    /\ UNCHANGED others_w

\* lines 700-703: the connection is made, _wait_for_port returns and the
\* for loop moves on
ConnectSucceeds ==
    /\ w_pc = "connect"
    /\ \E d \in ConnectTimes : w_now' = w_now + d
    /\ w_attempts' = Append(w_attempts, [i |-> w_i, ok |-> TRUE])
    /\ w_i' = w_i + 1
    /\ w_pc' = "for"
    /\ UNCHANGED <<w_fn, w_ports, w_host, w_timeout, w_soft, w_deadline,
                   w_errors, w_exc>>
    /\ UNCHANGED others_w

\* lines 700 and 704: open_connection raises OSError
ConnectFails ==
    /\ w_pc = "connect"
    /\ \E d \in ConnectTimes : w_now' = w_now + d
    /\ w_attempts' = Append(w_attempts, [i |-> w_i, ok |-> FALSE])
    /\ w_pc' = "except"
    /\ UNCHANGED <<w_fn, w_ports, w_host, w_timeout, w_soft, w_i, w_deadline,
                   w_errors, w_exc>>
    /\ UNCHANGED others_w

\* line 707: the deadline has not passed, sleep a second and try again
Sleep ==
    /\ w_pc = "except"
    /\ ~DeadlinePassed(w_now, w_deadline)
    /\ w_now' = w_now + 1
    /\ w_pc' = "connect"
    /\ UNCHANGED <<w_fn, w_ports, w_host, w_timeout, w_soft, w_i, w_deadline,
                   w_attempts, w_errors, w_exc>>
    /\ UNCHANGED others_w

\* a soft failure that ends the for loop
TimedOutSoftBreaks ==
    /\ w_pc = "except"
    /\ DeadlinePassed(w_now, w_deadline)
    /\ w_soft
    /\ w_errors' = Append(w_errors,
                          ErrorString(w_host, w_ports[w_i],
                                      PortTimeout(w_host, w_ports[w_i])))
    /\ w_pc' = "returned"
    /\ UNCHANGED <<w_fn, w_ports, w_host, w_timeout, w_soft, w_i, w_now,
                   w_deadline, w_attempts, w_exc>>
    /\ UNCHANGED others_w

\* lines 705-706 and 535-537: the deadline has passed, _wait_for_port
\* raises; with soft_fail the error is appended and the loop goes on
TimedOutSoft ==
    /\ w_pc = "except"
    /\ DeadlinePassed(w_now, w_deadline)
    /\ w_soft
    /\ w_errors' = Append(w_errors,
                          ErrorString(w_host, w_ports[w_i],
                                      PortTimeout(w_host, w_ports[w_i])))
    /\ w_i' = w_i + 1
    /\ w_pc' = "for"
    /\ UNCHANGED <<w_fn, w_ports, w_host, w_timeout, w_soft, w_now, w_deadline,
                   w_attempts, w_exc>>
    /\ UNCHANGED others_w

\* lines 705-706 and 538-539: without soft_fail the exception leaves
\* wait_for_services
TimedOutHard ==
    /\ w_pc = "except"
    /\ DeadlinePassed(w_now, w_deadline)
    /\ ~w_soft
    /\ w_exc' = PortTimeout(w_host, w_ports[w_i])
    /\ w_pc' = "raised"
    /\ UNCHANGED <<w_fn, w_ports, w_host, w_timeout, w_soft, w_i, w_now,
                   w_deadline, w_attempts, w_errors>>
    /\ UNCHANGED others_w

\* line 540: return errors
WaitReturns ==
    /\ w_pc = "for"
    /\ w_i > Len(w_ports)
    /\ w_pc' = "returned"
    /\ UNCHANGED <<w_fn, w_ports, w_host, w_timeout, w_soft, w_i, w_now,
                   w_deadline, w_attempts, w_errors, w_exc>>
    /\ UNCHANGED others_w

WaitNext ==
    \/ WaitForPortEnter
    \/ ConnectSucceeds
    \/ ConnectFails
    \/ Sleep
    \/ TimedOutSoft
    \/ TimedOutHard
    \/ WaitReturns

(***************************************************************************)
(* fetch_spec (discover_routes.py:30-43) and fetch_spec_with_retry (lines  *)
(* 285-296).                                                               *)
(*                                                                         *)
(* What a GET request meets is the probed service's choice:                *)
(*   "network_error"   session.get raises (connection, timeout)            *)
(*   "http_error"      a non-2xx status, raise_for_status raises           *)
(*   "invalid_json"    resp.json() raises requests' JSONDecodeError        *)
(*   "object_paths"    a JSON object with a "paths" key                    *)
(*   "object_other"    a JSON object without it                            *)
(*   "array"           a JSON array without the element "paths"            *)
(*   "string"          a JSON string without the substring "paths"         *)
(*   "text_paths"      a JSON string with the substring "paths", or an     *)
(*                     array with the element "paths"                      *)
(*   "scalar"          null, a number or a boolean                         *)
(***************************************************************************)
RetrySleepSeconds == 5

Responses ==
    {"network_error", "http_error", "invalid_json", "object_paths",
     "object_other", "array", "string", "text_paths", "scalar"}

\* lines 35-37: the request, the status check or the decoding raises a
\* requests.RequestException
RaisesRequestException(resp) ==
    resp \in {"network_error", "http_error", "invalid_json"}

\* line 38 on a value that supports no `in`: TypeError
PathsTestRaises(resp) == resp = "scalar"

\* line 38: `"paths" in data`
HasPaths(resp) == resp \in {"object_paths", "text_paths"}

NoFetchExc == [exc |-> "none", base_url |-> "none"]

\* RuntimeError(f"Unable to fetch OpenAPI spec from {base_url}"), lines 43, 296
SchemaNotFound(base_url) == [exc |-> "RuntimeError", base_url |-> base_url]

FetchNone == [kind |-> "none", doc |-> "none", exc |-> NoFetchExc]
FetchReturned(doc) == [kind |-> "returned", doc |-> doc, exc |-> NoFetchExc]
FetchRaised(e) == [kind |-> "raised", doc |-> "none", exc |-> e]

ProbePaths == {"/openapi.json", "/swagger.json", "/docs.json"}

FetchStart ==
    /\ f_fn \in {"fetch_spec", "fetch_spec_with_retry"}
    /\ f_base_url \in {"http://127.0.0.1:8020"}
    /\ f_paths \in DistinctSeqUpTo(ProbePaths, MaxProbePaths)
    /\ f_timeout \in (IF f_fn = "fetch_spec" THEN {0} ELSE 0..MaxFetchTimeout)
    /\ f_now = 0
    /\ f_deadline = 0
    /\ f_attempt = 0
    /\ f_k = 1
    /\ f_requested = <<>>
    /\ f_resp = "none"
    /\ f_last_exc = NoFetchExc
    /\ f_result = FetchNone
    /\ f_pc = "call"

FetchIdle ==
    /\ f_fn = "none"
    /\ f_base_url = "none"
    /\ f_paths = <<>>
    /\ f_timeout = 0
    /\ f_now = 0
    /\ f_deadline = 0
    /\ f_attempt = 0
    /\ f_k = 1
    /\ f_requested = <<>>
    /\ f_resp = "none"
    /\ f_last_exc = NoFetchExc
    /\ f_result = FetchNone
    /\ f_pc = "off"

\* lines 286-287: the deadline and last_exc of fetch_spec_with_retry
RetryEnter ==
    /\ f_pc = "call"
    /\ f_fn = "fetch_spec_with_retry"
    /\ f_deadline' = f_now + f_timeout
    /\ f_pc' = "while"
    /\ UNCHANGED <<f_fn, f_base_url, f_paths, f_timeout, f_now, f_attempt, f_k,
                   f_requested, f_resp, f_last_exc, f_result>>
    /\ UNCHANGED others_f

\* lines 288-290, or a direct call (line 136): fetch_spec is entered
FetchSpecEnter ==
    /\ \/ f_pc = "call" /\ f_fn = "fetch_spec"
       \/ f_pc = "while" /\ f_now < f_deadline
    /\ f_attempt' = f_attempt + 1
    /\ f_k' = 1
    /\ f_pc' = "probe"
    /\ UNCHANGED <<f_fn, f_base_url, f_paths, f_timeout, f_now, f_deadline,
                   f_requested, f_resp, f_last_exc, f_result>>
    /\ UNCHANGED others_f

\* lines 33-42: the candidate raises a RequestException or its document
\* has no "paths"; the loop continues
ProbeSkipped ==
    /\ f_pc = "probe"
    /\ f_k <= Len(f_paths)
    /\ \E resp \in Responses, d \in 0..MaxRequestTime :
          /\ RaisesRequestException(resp)
             \/ (~PathsTestRaises(resp) /\ ~HasPaths(resp))
          /\ f_resp' = resp
          /\ f_now' = f_now + d
    /\ f_requested' = Append(f_requested,
                             [attempt |-> f_attempt, probe |-> f_paths[f_k]])
    /\ f_k' = f_k + 1
    /\ UNCHANGED <<f_fn, f_base_url, f_paths, f_timeout, f_deadline, f_attempt,
                   f_last_exc, f_result, f_pc>>
    /\ UNCHANGED others_f

\* lines 33-39: the candidate's document has "paths"; fetch_spec returns
\* it, and so does fetch_spec_with_retry (line 290)
ProbeAccepted ==
    /\ f_pc = "probe"
    /\ f_k <= Len(f_paths)
    /\ \E resp \in Responses, d \in 0..MaxRequestTime :
          /\ ~RaisesRequestException(resp)
          /\ ~PathsTestRaises(resp)
          /\ HasPaths(resp)
          /\ f_resp' = resp
          /\ f_now' = f_now + d
          /\ f_result' = FetchReturned(resp)
    /\ f_requested' = Append(f_requested,
                             [attempt |-> f_attempt, probe |-> f_paths[f_k]])
    /\ f_pc' = "returned"
    /\ UNCHANGED <<f_fn, f_base_url, f_paths, f_timeout, f_deadline, f_attempt,
                   f_k, f_last_exc>>
    /\ UNCHANGED others_f

\* line 38 raises TypeError on a scalar document: no except clause of
\* fetch_spec or fetch_spec_with_retry matches, the call ends with it
ProbeAborts ==
    /\ f_pc = "probe"
    /\ f_k <= Len(f_paths)
    /\ \E resp \in Responses, d \in 0..MaxRequestTime :
          /\ ~RaisesRequestException(resp)
          /\ PathsTestRaises(resp)
          /\ f_resp' = resp
          /\ f_now' = f_now + d
    /\ f_requested' = Append(f_requested,
                             [attempt |-> f_attempt, probe |-> f_paths[f_k]])
    /\ f_result' = FetchRaised([exc |-> "TypeError", base_url |-> "none"])
    /\ f_pc' = "raised"
    /\ UNCHANGED <<f_fn, f_base_url, f_paths, f_timeout, f_deadline, f_attempt,
                   f_k, f_last_exc>>
    /\ UNCHANGED others_f

\* line 43: no candidate matched; a direct call ends with the RuntimeError,
\* fetch_spec_with_retry keeps it in last_exc (lines 291-292)
FetchSpecFails ==
    /\ f_pc = "probe"
    /\ f_k > Len(f_paths)
    /\ IF f_fn = "fetch_spec"
       THEN /\ f_result' = FetchRaised(SchemaNotFound(f_base_url))
            /\ f_pc' = "raised"
            /\ UNCHANGED f_last_exc
       ELSE /\ f_last_exc' = SchemaNotFound(f_base_url)
            /\ f_pc' = "sleep"
            /\ UNCHANGED f_result
    /\ UNCHANGED <<f_fn, f_base_url, f_paths, f_timeout, f_now, f_deadline,
                   f_attempt, f_k, f_requested, f_resp>>
    /\ UNCHANGED others_f

\* line 293: time.sleep(5), then the test of line 288 again
RetrySleep ==
    /\ f_pc = "sleep"
    /\ f_now' = f_now + RetrySleepSeconds
    /\ f_pc' = "while"
    /\ UNCHANGED <<f_fn, f_base_url, f_paths, f_timeout, f_deadline, f_attempt,
                   f_k, f_requested, f_resp, f_last_exc, f_result>>
    /\ UNCHANGED others_f

\* lines 288 and 294-296: the deadline has passed
RetryGivesUp ==
    /\ f_pc = "while"
    /\ ~(f_now < f_deadline)
    /\ f_result' = FetchRaised(IF f_last_exc # NoFetchExc THEN f_last_exc
                               ELSE SchemaNotFound(f_base_url))
    /\ f_pc' = "raised"
    /\ UNCHANGED <<f_fn, f_base_url, f_paths, f_timeout, f_now, f_deadline,
                   f_attempt, f_k, f_requested, f_resp, f_last_exc>>
    /\ UNCHANGED others_f

FetchNext ==
    \/ RetryEnter
    \/ FetchSpecEnter
    \/ ProbeSkipped
    \/ ProbeAccepted
    \/ ProbeAborts
    \/ FetchSpecFails
    \/ RetrySleep
    \/ RetryGivesUp

(***************************************************************************)
(* Host-port allocation and launch of start_container, for two discovery   *)
(* runs of one machine that execute concurrently (discover_routes.py:      *)
(* 225-243, 265-267, 327-341).  A run is at "pick" while the loop of lines *)
(* 235-238 calls pick_host_port, at "run" before `docker run` (line 242),  *)
(* at "probe" while its container runs, and ends "raised" or "stopped".    *)
(***************************************************************************)
\* the retry budget of pick_host_port: `attempts` (50 in the source)
MaxAttempts == 2

\* random.randint(start, end): the candidate range (40000..60000 in the
\* source)
HostPortRange == {40000, 40001}

\* the ports bind(("", 0)) may hand out
OsPorts == HostPortRange \cup {32768}

Runs == {1, 2}

ContainerIds == {"c1", "c2"}

\* the ports argument of a start_container call with n ports
AllocPorts(n) == [i \in 1..n |-> 9000 + i]

Range(s) == {s[i] : i \in 1..Len(s)}

\* the host ports something listens on: other processes, and the published
\* ports of the running containers
Listening ==
    a_foreign \cup UNION {a_pub[c] : c \in {d \in ContainerIds :
                                            a_state[d] = "running"}}

\* is_port_free (lines 338-341): a connection attempt to 127.0.0.1:port
\* fails; nothing is bound or reserved by the test
is_port_free(port) == port \notin Listening

\* the port mapping the command of line 237 asks for can be set up: docker
\* binds every host port once
Publishable(m) ==
    /\ \A i, j \in 1..Len(m) : m[i] = m[j] => i = j
    /\ Range(m) \cap Listening = {}

\* pick_host_port returned host_port to run r, which adds the -p argument
\* (lines 236-237) and goes on with the next port or with line 239
Mapped(r, host_port) ==
    /\ a_map' = [a_map EXCEPT ![r] = Append(@, host_port)]
    /\ a_tries' = [a_tries EXCEPT ![r] = 0]
    /\ a_pc' = [a_pc EXCEPT ![r] =
                  IF Len(a_map[r]) + 1 = Len(a_ports[r]) THEN "run"
                  ELSE "pick"]

AllocStart ==
    /\ a_ports \in [Runs -> {AllocPorts(n) : n \in 1..MaxPorts}]
    /\ a_tries = [r \in Runs |-> 0]
    /\ a_map = [r \in Runs |-> <<>>]
    /\ a_pc = [r \in Runs |-> "pick"]
    /\ a_cid = [r \in Runs |-> NoId]
    /\ a_foreign \in SUBSET HostPortRange
    /\ a_state = [c \in ContainerIds |-> "absent"]
    /\ a_pub = [c \in ContainerIds |-> {}]
    /\ a_torn = {}

AllocIdle ==
    /\ a_ports = [r \in Runs |-> <<>>]
    /\ a_tries = [r \in Runs |-> 0]
    /\ a_map = [r \in Runs |-> <<>>]
    /\ a_pc = [r \in Runs |-> "off"]
    /\ a_cid = [r \in Runs |-> NoId]
    /\ a_foreign = {}
    /\ a_state = [c \in ContainerIds |-> "absent"]
    /\ a_pub = [c \in ContainerIds |-> {}]
    /\ a_torn = {}

\* pick_host_port lines 328-331: a random candidate that is_port_free
\* accepts is returned
CandidateFree ==
    /\ \E r \in Runs, candidate \in HostPortRange :
        /\ a_pc[r] = "pick"
        /\ a_tries[r] < MaxAttempts
        /\ is_port_free(candidate)
        /\ Mapped(r, candidate)
    /\ UNCHANGED <<a_ports, a_cid, a_foreign, a_state, a_pub, a_torn>>
    /\ UNCHANGED others_a

\* pick_host_port lines 328-330: the candidate is in use, next iteration
CandidateBusy ==
    /\ \E r \in Runs, candidate \in HostPortRange :
        /\ a_pc[r] = "pick"
        /\ a_tries[r] < MaxAttempts
        /\ ~is_port_free(candidate)
        /\ a_tries' = [a_tries EXCEPT ![r] = @ + 1]
    /\ UNCHANGED <<a_ports, a_map, a_pc, a_cid, a_foreign, a_state, a_pub,
                   a_torn>>
    /\ UNCHANGED others_a

\* pick_host_port lines 332-335: the budget is spent; the port the OS gave
\* to a socket bound to port 0, which is closed before the return
OsAssigned ==
    /\ \E r \in Runs, os_port \in OsPorts :
        /\ a_pc[r] = "pick"
        /\ a_tries[r] = MaxAttempts
        /\ os_port \notin Listening
        /\ Mapped(r, os_port)
    /\ UNCHANGED <<a_ports, a_cid, a_foreign, a_state, a_pub, a_torn>>
    /\ UNCHANGED others_a

\* line 242-243 and 246-262: `docker run -d` sets the mapping up and prints
\* the id of the new container, which is then seen running
DockerRunStarts ==
    /\ \E r \in Runs, c \in ContainerIds :
        /\ a_pc[r] = "run"
        /\ Publishable(a_map[r])
        /\ a_state[c] = "absent"
        /\ a_state' = [a_state EXCEPT ![c] = "running"]
        /\ a_pub' = [a_pub EXCEPT ![c] = Range(a_map[r])]
        /\ a_cid' = [a_cid EXCEPT ![r] = c]
        /\ a_pc' = [a_pc EXCEPT ![r] = "probe"]
    /\ UNCHANGED <<a_ports, a_tries, a_map, a_foreign, a_torn>>
    /\ UNCHANGED others_a

\* line 242: a host port of the mapping is taken; `docker run` creates the
\* container, fails to start it and exits non-zero: CalledProcessError
DockerRunFails ==
    /\ \E r \in Runs, c \in ContainerIds :
        /\ a_pc[r] = "run"
        /\ ~Publishable(a_map[r])
        /\ a_state[c] = "absent"
        /\ a_state' = [a_state EXCEPT ![c] = "created"]
        /\ a_pc' = [a_pc EXCEPT ![r] = "raised"]
    /\ UNCHANGED <<a_ports, a_tries, a_map, a_cid, a_foreign, a_pub, a_torn>>
    /\ UNCHANGED others_a

\* the finally clause of the run: stop_container(container_id), lines
\* 265-267, with the id line 243 returned
StopOwnContainer ==
    /\ \E r \in Runs :
        /\ a_pc[r] = "probe"
        /\ a_torn' = a_torn \cup {<<r, a_cid[r]>>}
        /\ a_state' = [a_state EXCEPT ![a_cid[r]] = "removed"]
        /\ a_pub' = [a_pub EXCEPT ![a_cid[r]] = {}]
        /\ a_pc' = [a_pc EXCEPT ![r] = "stopped"]
    /\ UNCHANGED <<a_ports, a_tries, a_map, a_cid, a_foreign>>
    /\ UNCHANGED others_a

AllocNext ==
    \/ CandidateFree
    \/ CandidateBusy
    \/ OsAssigned
    \/ DockerRunStarts
    \/ DockerRunFails
    \/ StopOwnContainer

(***************************************************************************)
(* Function names of the deployment-file generator                         *)
(* (create_chute_from_image.py:334-372, 466-471).  Names are sequences of  *)
(* characters, as paths are.                                               *)
(***************************************************************************)
MaxNameRoutes == 3

\* str.lstrip(c)
LStrip(s, c) ==
    LET RECURSIVE Go(_)
        Go(t) == IF t # <<>> /\ t[1] = c THEN Go(Tail(t)) ELSE t
    IN Go(s)

\* str.strip(c)
Strip(s, c) == RStrip(LStrip(s, c), c)

Letters == {"a", "b", "c", "d", "e", "f", "g", "n", "o", "p", "r", "s", "t"}
Digits == {"0", "1", "2", "3", "4", "5", "6", "7", "8", "9"}

\* re.sub(r'[^a-zA-Z0-9_]', '_', s)
SubNonWord(s) ==
    [i \in 1..Len(s) |->
        IF s[i] \in Letters \cup Digits \cup {"_"} THEN s[i] ELSE "_"]

\* re.sub(r'_+', '_', s)
SubUnderscores(s) ==
    LET RECURSIVE Go(_)
        Go(t) == IF t = <<>> THEN <<>>
                 ELSE IF Len(t) > 1 /\ t[1] = "_" /\ t[2] = "_"
                      THEN Go(Tail(t))
                      ELSE <<t[1]>> \o Go(Tail(t))
    IN Go(s)

\* generate_route_code lines 353-358: sanitized_path
SanitizedPath(path) ==
    Strip(SubUnderscores(SubNonWord(Strip(path, "/"))), "_")

\* method.lower(), as characters
LowerChars(m) ==
    CASE Lower(m) = "get"  -> <<"g", "e", "t">>
      [] Lower(m) = "post" -> <<"p", "o", "s", "t">>
      [] OTHER             -> <<"o", "p">>

\* str(n) for 0 <= n <= 99
Str(n) ==
    LET d(k) == <<"0", "1", "2", "3", "4", "5", "6", "7", "8", "9">>[k + 1]
    IN IF n < 10 THEN <<d(n)>> ELSE <<d(n \div 10), d(n % 10)>>

\* generate_route_code lines 360-366: base_name
BaseName(route) ==
    LET joined == LowerChars(route.method) \o <<"_">>
                    \o SanitizedPath(route.path)
        base_name == IF joined[Len(joined)] = "_"
                     THEN joined \o <<"r", "o", "o", "t">> ELSE joined
    IN IF base_name[1] \in Digits THEN <<"f", "n", "_">> \o base_name
       ELSE base_name

\* tracker.get(base, 0)
TrackerGet(tracker, base) ==
    IF base \in DOMAIN tracker THEN tracker[base] ELSE 0

\* tracker[base] = value
TrackerSet(tracker, base, value) ==
    [b \in DOMAIN tracker \cup {base} |->
        IF b = base THEN value ELSE tracker[b]]

\* _make_unique_name (lines 334-341): the name returned and the tracker
\* after the call
make_unique_name(base, tracker) ==
    LET count == TrackerGet(tracker, base) IN
    IF count = 0
    THEN [name |-> base, tracker |-> TrackerSet(tracker, base, 1)]
    ELSE [name |-> base \o <<"_">> \o Str(count + 1),
          tracker |-> TrackerSet(tracker, base, count + 1)]

P_a_slash == <<"/", "a", "/">>
P_a_2 == <<"/", "a", "/", "2">>
P_slash == <<"/">>

\* the discovered routes the generator is run on
NamePaths == {P_a, P_a_slash, P_a_2, P_slash}
NameRoutes == {[path |-> p, method |-> m] : p \in NamePaths,
                                             m \in {"GET", "POST"}}

NamesStart ==
    /\ n_routes \in DistinctSeqUpTo(NameRoutes, MaxNameRoutes)
    /\ n_i = 1
    /\ n_tracker = <<>>
    /\ n_names = <<>>
    /\ n_pc = "for"

NamesIdle ==
    /\ n_routes = <<>>
    /\ n_i = 1
    /\ n_tracker = <<>>
    /\ n_names = <<>>
    /\ n_pc = "off"

\* one iteration of the loop of lines 470-471: generate_route_code(route,
\* name_tracker), of which the function name is kept
GenerateRouteCode ==
    /\ n_pc = "for"
    /\ n_i <= Len(n_routes)
    /\ LET made == make_unique_name(BaseName(n_routes[n_i]), n_tracker) IN
        /\ n_names' = Append(n_names, made.name)
        /\ n_tracker' = made.tracker
    /\ n_i' = n_i + 1
    /\ UNCHANGED <<n_routes, n_pc>>
    /\ UNCHANGED others_n

\* the loop is over
GenerateDone ==
    /\ n_pc = "for"
    /\ n_i > Len(n_routes)
    /\ n_pc' = "done"
    /\ UNCHANGED <<n_routes, n_i, n_tracker, n_names>>
    /\ UNCHANGED others_n

NamesNext == GenerateRouteCode \/ GenerateDone

(***************************************************************************)
(* One process that runs a discovery and afterwards calls                  *)
(* load_route_manifest, any number of times: os.environ is shared          *)
(* (discover_routes.py:163, 214; chute_wrappers.py:417-418).               *)
(***************************************************************************)
\* the manifest sources and static routes of the later calls
LaterRoutes ==
    <<[path |-> P_a, method |-> NoMethod, port |-> 9001, target_path |-> P_a,
       stream |-> FALSE]>>
LaterDocument == write_manifest(Payload(LaterRoutes, "chute"))

\* what a later call finds: inline manifest, manifest file and static_routes
LaterCalls ==
    {[inline |-> [set |-> TRUE, text |-> LaterDocument],
      file |-> [exists |-> TRUE, text |-> LaterDocument],
      static |-> LaterRoutes],
     [inline |-> [set |-> FALSE, text |-> <<>>],
      file |-> [exists |-> TRUE, text |-> LaterDocument],
      static |-> <<>>],
     [inline |-> [set |-> FALSE, text |-> <<>>],
      file |-> NoFile,
      static |-> LaterRoutes],
     [inline |-> [set |-> FALSE, text |-> <<>>],
      file |-> NoFile,
      static |-> <<>>]}

\* the environment the process starts with: the flag is unset or empty
ProcessStart ==
    /\ l_skip \in {NoEnv, ""}
    /\ l_inline = [set |-> FALSE, text |-> <<>>]
    /\ l_file = NoFile
    /\ l_written = NotWritten
    /\ l_static = <<>>
    /\ l_reads = <<>>
    /\ l_result = NoResult
    /\ l_cords = <<>>
    /\ l_pc = "off"

\* a load_route_manifest call made after the discovery run has ended
LoadAfterDiscovery ==
    /\ pc = "done"
    /\ l_pc \in {"off", "loaded", "raised"}
    /\ \E call \in LaterCalls :
        LET res == load_route_manifest(l_skip, call.inline, call.file,
                                       call.static) IN
        /\ l_inline' = call.inline
        /\ l_file' = call.file
        /\ l_static' = call.static
        /\ l_result' = res
        /\ l_reads' = res.reads
        /\ l_pc' = IF res.kind = "returned" THEN "loaded" ELSE "raised"
    /\ UNCHANGED <<l_skip, l_written, l_cords>>
    /\ UNCHANGED others_l

(***************************************************************************)
(* The specifications.                                                     *)
(***************************************************************************)
\* a discovery run
Init == DiscoverInit /\ ExtractIdle /\ MergeIdle /\ RegisterIdle /\ LoadIdle
    /\ WaitIdle /\ FetchIdle /\ AllocIdle /\ NamesIdle
Next == DiscoverNext
Spec == Init /\ [][Next]_vars

\* extract_routes
InitExtract ==
    DiscoverIdle /\ ExtractInit /\ MergeIdle /\ RegisterIdle /\ LoadIdle
    /\ WaitIdle /\ FetchIdle /\ AllocIdle /\ NamesIdle
NextExtract == ExtractRoutes
SpecExtract == InitExtract /\ [][NextExtract]_vars

\* the static-route merge of load_route_manifest
InitMerge ==
    DiscoverIdle /\ ExtractIdle /\ MergeStart /\ RegisterIdle /\ LoadIdle
    /\ WaitIdle /\ FetchIdle /\ AllocIdle /\ NamesIdle
NextMerge == LoadRouteManifestMerge
SpecMerge == InitMerge /\ [][NextMerge]_vars

\* register_passthrough_routes
InitRegister ==
    DiscoverIdle /\ ExtractIdle /\ MergeIdle /\ RegisterStart /\ LoadIdle
    /\ WaitIdle /\ FetchIdle /\ AllocIdle /\ NamesIdle
NextRegister == RegisterPassthroughRoutes
SpecRegister == InitRegister /\ [][NextRegister]_vars

\* write_manifest, load_route_manifest, then the registration
InitLoad ==
    DiscoverIdle /\ ExtractIdle /\ MergeIdle /\ RegisterIdle /\ LoadStart
    /\ WaitIdle /\ FetchIdle /\ AllocIdle /\ NamesIdle
NextLoad == WriteManifest \/ LoadRouteManifest \/ RegisterLoaded
SpecLoad == InitLoad /\ [][NextLoad]_vars

\* wait_for_services / probe_services; the event loop runs the coroutine
\* whenever it can take a step
InitWait ==
    DiscoverIdle /\ ExtractIdle /\ MergeIdle /\ RegisterIdle /\ LoadIdle
    /\ WaitStart /\ FetchIdle /\ AllocIdle /\ NamesIdle
NextWait == WaitNext
SpecWait == InitWait /\ [][NextWait]_vars
SpecWaitFair == SpecWait /\ WF_vars(NextWait)

\* fetch_spec / fetch_spec_with_retry; the calling thread runs whenever it
\* can take a step
InitFetch ==
    DiscoverIdle /\ ExtractIdle /\ MergeIdle /\ RegisterIdle /\ LoadIdle
    /\ WaitIdle /\ FetchStart /\ AllocIdle /\ NamesIdle
NextFetch == FetchNext
SpecFetch == InitFetch /\ [][NextFetch]_vars
SpecFetchFair == SpecFetch /\ WF_vars(NextFetch)

\* two concurrent start_container calls, each followed by the teardown of
\* its run
InitAlloc ==
    DiscoverIdle /\ ExtractIdle /\ MergeIdle /\ RegisterIdle /\ LoadIdle
    /\ WaitIdle /\ FetchIdle /\ AllocStart /\ NamesIdle
NextAlloc == AllocNext
SpecAlloc == InitAlloc /\ [][NextAlloc]_vars

\* the route loop of the deployment-file generator
InitNames ==
    DiscoverIdle /\ ExtractIdle /\ MergeIdle /\ RegisterIdle /\ LoadIdle
    /\ WaitIdle /\ FetchIdle /\ AllocIdle /\ NamesStart
NextNames == NamesNext
SpecNames == InitNames /\ [][NextNames]_vars

\* a discovery run and the load_route_manifest calls of the same process
\* after it
InitProcess ==
    DiscoverInit /\ ExtractIdle /\ MergeIdle /\ RegisterIdle /\ ProcessStart
    /\ WaitIdle /\ FetchIdle /\ AllocIdle /\ NamesIdle
NextProcess == DiscoverNext \/ LoadAfterDiscovery
SpecProcess == InitProcess /\ [][NextProcess]_vars

(***************************************************************************)
(* The properties.  They are stated with their own reading of the method   *)
(* normalisation (NormalMethod) and of the eligibility rules (Eligible),   *)
(* not with the operators that model the code.                             *)
(***************************************************************************)
SupportedUpper == {"GET", "POST", "PUT", "PATCH", "DELETE"}

\* a method name in upper case; "GET" for a route without a method
NormalMethod(m) ==
    IF m = NoMethod THEN "GET"
    ELSE CHOOSE u \in SupportedUpper \cup {"OPTIONS", "HEAD"} :
            \/ m = u
            \/ <<u, m>> \in {<<"GET", "get">>, <<"GET", "Get">>,
                             <<"POST", "post">>, <<"PUT", "put">>,
                             <<"PATCH", "patch">>, <<"DELETE", "delete">>,
                             <<"OPTIONS", "options">>, <<"HEAD", "head">>}

\* the (path, upper-cased method) identity key of a route
KeyOf(route) == <<route.path, NormalMethod(route.method)>>

UniqueKeys(rs) ==
    \A i, j \in 1..Len(rs) : KeyOf(rs[i]) = KeyOf(rs[j]) => i = j

TraceIdx(ops) == {k \in 1..Len(trace) : trace[k].op \in ops}

\* C1: in a discovery run in which start_container returned a container
\* id, start_container comes before every probe (get_host_url,
\* fetch_spec_with_retry), every probe comes before stop_container, and
\* when the run has ended stop_container has been called exactly once for
\* that id, whether the try block was left normally or by an exception.
C1_StartProbeStopOrder ==
    container_id # NoId =>
        LET starts == {k \in TraceIdx({"start_container"}) :
                          trace[k].id = container_id}
            stops  == {k \in TraceIdx({"stop_container"}) :
                          trace[k].id = container_id}
            probes == TraceIdx(ProbeOps)
        IN  /\ Cardinality(starts) = 1
            /\ Cardinality(stops) <= 1
            /\ \A s \in starts, p \in probes : s < p
            /\ \A p \in probes, t \in stops : p < t
            /\ \A s \in starts, t \in stops : s < t
            /\ pc = "done" => Cardinality(stops) = 1

\* C1, its case: a run whose probe sequence raised after start_container
\* returned has ended with one stop_container call.
C1_Witness ==
    /\ pc = "done"
    /\ outcome = "raised"
    /\ container_id # NoId
    /\ TraceIdx(ProbeOps) # {}
    /\ Cardinality(TraceIdx({"stop_container"})) = 1

\* C2: when a discovery run has ended (returned, raised while probing, or
\* raised inside start_container), no container it created is still
\* present.
C2_NoContainerLeft ==
    pc = "done" => created \cap present = {}

\* C4: the routes a discovery run returns, collected over all its ports,
\* have pairwise distinct (path, upper-cased method) keys.
C4_ManifestKeysUnique ==
    (pc = "done" /\ outcome = "returned") => UniqueKeys(routes)

(* ---- the merge of load_route_manifest ---- *)
ManifestIdx(key) == {j \in 1..Len(m_manifest) : KeyOf(m_manifest[j]) = key}

\* the static routes whose key is neither in the manifest nor earlier in
\* static_routes
NewStaticIdx ==
    {i \in 1..Len(m_static) :
        /\ ManifestIdx(KeyOf(m_static[i])) = {}
        /\ \A j \in 1..(i - 1) : KeyOf(m_static[j]) # KeyOf(m_static[i])}

AddedRoutes ==
    IF Len(m_out.routes) > Len(m_manifest)
    THEN SubSeq(m_out.routes, Len(m_manifest) + 1, Len(m_out.routes))
    ELSE <<>>

Conflicts(s) ==
    /\ ManifestIdx(KeyOf(s)) # {}
    /\ \A j \in ManifestIdx(KeyOf(s)) :
          \/ m_manifest[j].port # s.port
          \/ m_manifest[j].target_path # s.target_path

\* C3: a static route with the key of a discovered route but another port
\* or target_path leaves the discovered routes as they are, is not added,
\* gets a conflict warning, and the static routes after it are still
\* processed (one with a new key is added).
C3_ConflictKeepsDiscovered ==
    m_pc = "done" =>
        \A i \in 1..Len(m_static) :
            Conflicts(m_static[i]) =>
                /\ Len(m_out.routes) >= Len(m_manifest)
                /\ SubSeq(m_out.routes, 1, Len(m_manifest)) = m_manifest
                /\ \A k \in 1..Len(AddedRoutes) :
                      KeyOf(AddedRoutes[k]) # KeyOf(m_static[i])
                /\ Cardinality({k \in 1..Len(m_out.warnings) :
                                   m_out.warnings[k].static = m_static[i]})
                     = Cardinality({j \in 1..Len(m_static) :
                                       m_static[j] = m_static[i]})
                /\ \A j \in NewStaticIdx :
                      j > i => \E k \in 1..Len(AddedRoutes) :
                                  AddedRoutes[k] = m_static[j]

\* C3, its case: one discovered route, a static route of its key on
\* another port, then a static route with a new key.
C3_Witness ==
    /\ m_pc = "done"
    /\ Len(m_manifest) = 1
    /\ Len(m_static) = 2
    /\ Conflicts(m_static[1])
    /\ m_static[1].port # m_manifest[1].port
    /\ 2 \in NewStaticIdx
    /\ m_out.routes = <<m_manifest[1], m_static[2]>>
    /\ Len(m_out.warnings) = 1

\* C5: with no static route, the merge returns the discovered list itself:
\* the same entries in the same order.
C5_MergeEmptyIsIdentity ==
    (m_pc = "done" /\ m_static = <<>>) => m_out.routes = m_manifest

\* C5, its case: two discovered routes merged with no static route.
C5_Witness ==
    /\ m_pc = "done"
    /\ m_static = <<>>
    /\ Len(m_manifest) = 2
    /\ Len(m_out.routes) = 2

\* C6: a static route with the key and the port and target_path of a
\* discovered route gets no conflict warning, and the result holds exactly
\* one entry of that key.
C6_DuplicateSkippedOnce ==
    m_pc = "done" =>
        \A i \in 1..Len(m_static) :
            (\E j \in ManifestIdx(KeyOf(m_static[i])) :
                /\ m_manifest[j].port = m_static[i].port
                /\ m_manifest[j].target_path = m_static[i].target_path)
            => /\ \A k \in 1..Len(m_out.warnings) :
                     m_out.warnings[k].static # m_static[i]
               /\ Cardinality({k \in 1..Len(m_out.routes) :
                     KeyOf(m_out.routes[k]) = KeyOf(m_static[i])}) = 1

\* C7: the result is the discovered routes in their order, followed by the
\* newly added static routes in declaration order.
C7_DiscoveredThenDeclared ==
    m_pc = "done" =>
        /\ Len(m_out.routes) = Len(m_manifest) + Cardinality(NewStaticIdx)
        /\ SubSeq(m_out.routes, 1, Len(m_manifest)) = m_manifest
        /\ \A i \in NewStaticIdx :
              AddedRoutes[Cardinality({j \in NewStaticIdx : j <= i})]
                  = m_static[i]

\* C7, its case: a discovered route and two static routes with new keys.
C7_Witness ==
    /\ m_pc = "done"
    /\ Len(m_manifest) = 1
    /\ NewStaticIdx = {1, 2}
    /\ m_out.routes = m_manifest \o m_static

(* ---- extract_routes ---- *)
SchemaPairs ==
    UNION {{<<i, j>> : j \in 1..Len(x_spec[i].methods)} : i \in 1..Len(x_spec)}

PairDefinition(pr) == x_spec[pr[1]].methods[pr[2]]

SupportedPairs ==
    {pr \in SchemaPairs :
        NormalMethod(PairDefinition(pr).method) \in SupportedUpper}

\* the supported pairs ahead of pr in the schema's iteration order
PairsBefore(pr) ==
    {q \in SupportedPairs :
        q[1] < pr[1] \/ (q[1] = pr[1] /\ q[2] < pr[2])}

\* C8: extract_routes yields one route for each (path, method) pair whose
\* method is, whatever its case, one of GET POST PUT PATCH DELETE, no
\* route for any other method key, and as many routes as supported pairs.
C8_MethodFiltering ==
    x_pc = "done" =>
        /\ Len(x_out) = Cardinality(SupportedPairs)
        /\ \A pr \in SupportedPairs : \E k \in 1..Len(x_out) :
              /\ x_out[k].path = x_spec[pr[1]].path
              /\ NormalMethod(x_out[k].method)
                   = NormalMethod(PairDefinition(pr).method)
        /\ \A k \in 1..Len(x_out) : \E pr \in SupportedPairs :
              /\ x_out[k].path = x_spec[pr[1]].path
              /\ NormalMethod(x_out[k].method)
                   = NormalMethod(PairDefinition(pr).method)

\* C8, its case: one path with a get and an options operation yields the
\* single route GET.
C8_Witness ==
    /\ x_pc = "done"
    /\ Len(x_spec) = 1
    /\ Len(x_spec[1].methods) = 2
    /\ x_spec[1].methods[1].method = "get"
    /\ x_spec[1].methods[2].method = "options"
    /\ Len(x_out) = 1
    /\ x_out[1].method = "GET"

\* C9: every route of extract_routes(schema, default_port) has target_path
\* = path, port = default_port, the method in upper case and the stream
\* flag of the operation's marker (false without one), and the routes are
\* in the schema's iteration order.
C9_RouteFields ==
    x_pc = "done" =>
        /\ Len(x_out) = Cardinality(SupportedPairs)
        /\ \A pr \in SupportedPairs :
              LET r == x_out[Cardinality(PairsBefore(pr)) + 1]
                  d == PairDefinition(pr)
              IN  /\ r.path = x_spec[pr[1]].path
                  /\ r.target_path = r.path
                  /\ r.port = x_port
                  /\ r.method \in SupportedUpper
                  /\ r.method = NormalMethod(d.method)
                  /\ r.stream = (d.has_stream /\ d.x_stream)

\* C9, its case: two paths, routes of both in order, one of them streaming.
C9_Witness ==
    /\ x_pc = "done"
    /\ Len(x_spec) = 2
    /\ Len(x_out) >= 2
    /\ x_out[1].path = x_spec[1].path
    /\ x_out[Len(x_out)].path = x_spec[2].path
    /\ \E k \in 1..Len(x_out) : x_out[k].stream
    /\ \E k \in 1..Len(x_out) : ~x_out[k].stream

(* ---- register_passthrough_routes ---- *)
Eligible(path) ==
    /\ \A i \in 1..Len(path) : path[i] \notin {"{", "}", "."}
    /\ Len(path) > 0
    /\ ~(Len(path) = 1 /\ path[1] = "/")
    /\ \A prefix \in SKIP_PATH_PREFIXES :
          Len(path) < Len(prefix) \/ SubSeq(path, 1, Len(prefix)) # prefix

EligibleIdx == {i \in 1..Len(r_routes) : Eligible(r_routes[i].path)}

\* C10: register_passthrough_routes registers a route iff its path has no
\* brace and no dot, is neither "" nor "/", and starts with none of the
\* internal prefixes: /static/app.js, /items/{id}, /, "" and /a.html are
\* never registered, /generate and /v1/chat are, and there are as many
\* registrations as eligible routes.
C10_EligibilityFilter ==
    r_pc = "registered" =>
        /\ Len(r_cords) = Cardinality(EligibleIdx)
        /\ \A i \in EligibleIdx :
              LET c == r_cords[Cardinality({j \in EligibleIdx : j <= i})]
              IN  /\ c.public_api_path = r_routes[i].path
                  /\ c.public_api_method = r_routes[i].method
        /\ \A k \in 1..Len(r_cords) :
              r_cords[k].public_api_path \notin
                  {P_static_app_js, P_items_id, P_root, P_empty, P_a_html}
        /\ \A i \in 1..Len(r_routes) :
              r_routes[i].path \in {P_generate, P_v1_chat} =>
                  \E k \in 1..Len(r_cords) :
                      r_cords[k].public_api_path = r_routes[i].path

\* C10, its case: /a.html followed by /a registers /a alone.
C10_Witness ==
    /\ r_pc = "registered"
    /\ Len(r_routes) = 2
    /\ r_routes[1].path = P_a_html
    /\ r_routes[2].path = P_a
    /\ Len(r_cords) = 1
    /\ r_cords[1].public_api_path = P_a

\* C11: two descriptors registered by one call of
\* register_passthrough_routes that differ in method or path (GET /a and
\* POST /a) never get the same generated identifier (the handler's
\* function name).
C11_UniqueIdentifiers ==
    r_pc = "registered" =>
        \A i, j \in 1..Len(r_cords) :
            <<r_cords[i].public_api_method, r_cords[i].public_api_path>>
                # <<r_cords[j].public_api_method, r_cords[j].public_api_path>>
            => r_cords[i].function_name # r_cords[j].function_name

\* C12: a second call of register_passthrough_routes with the same manifest
\* leaves the bindings registered with the chute as they were after the
\* first call.
C12_SecondCallRegistersNothing ==
    [][r_pc = "registered" => r_cords' = r_cords]_vars

(* ---- load_route_manifest, whole ---- *)
LoadEnded == l_pc \in {"loaded", "raised", "registered"}

SkipFlagOn == l_skip = "1"
SkipFlagOff == l_skip \in {NoEnv, ""}

\* the inline manifest holds a value (a non-empty string)
InlineGiven == l_inline.set /\ Len(l_inline.text) > 0

TupleOf(r) == <<r.path, r.method, r.port, r.target_path, r.stream>>

TuplesOf(rs) == [i \in 1..Len(rs) |-> TupleOf(rs[i])]

\* C13: with the registration-skip flag set, load_route_manifest returns []
\* whatever the inline manifest, the manifest file and static_routes are: it
\* consults no manifest source, raises nothing, adds no static route, and
\* the registration that follows registers nothing.
C13_SkipFlagReturnsEmpty ==
    SkipFlagOn /\ LoadEnded =>
        /\ l_result.kind = "returned"
        /\ l_result.routes = <<>>
        /\ l_reads = <<>>
        /\ l_pc = "registered" => l_cords = <<>>

\* C13, its case: the flag set, no manifest file, an inline manifest and a
\* static route; the load returned and the registration ran.
C13_Witness ==
    /\ SkipFlagOn
    /\ l_pc = "registered"
    /\ InlineGiven
    /\ ~l_file.exists
    /\ l_static # <<>>

\* C14: with the skip flag off, an inline manifest is the only source used
\* (the file is not even looked for); without it the manifest file is read
\* if it exists; with neither and no static_routes the load raises
\* RuntimeError naming manifest_path; with neither and static_routes the
\* load returns static routes and no others.
C14_SourceSelection ==
    SkipFlagOff /\ LoadEnded =>
        /\ InlineGiven =>
              /\ l_reads = <<"getenv_inline">>
              /\ \A rs \in LoadManifests :
                    l_inline.text = write_manifest(Payload(rs, "chute"))
                    /\ l_static = <<>>
                    => l_result.kind = "returned" /\ l_result.routes = rs
        /\ ~InlineGiven /\ l_file.exists =>
              /\ l_reads = <<"getenv_inline", "exists", "read_file">>
              /\ \A rs \in LoadManifests :
                    l_file.text = write_manifest(Payload(rs, "chute"))
                    /\ l_static = <<>>
                    => l_result.kind = "returned" /\ l_result.routes = rs
        /\ ~InlineGiven /\ ~l_file.exists /\ l_static = <<>> =>
              /\ l_result.kind = "raised"
              /\ l_result.exc = "RuntimeError"
              /\ l_result.cause = "manifest_path"
        /\ ~InlineGiven /\ ~l_file.exists /\ l_static # <<>> =>
              /\ l_result.kind = "returned"
              /\ l_result.routes # <<>>
              /\ \A i \in 1..Len(l_result.routes) :
                    \E j \in 1..Len(l_static) : l_result.routes[i] = l_static[j]
              /\ \A j \in 1..Len(l_static) :
                    \E i \in 1..Len(l_result.routes) :
                        KeyOf(l_result.routes[i]) = KeyOf(l_static[j])

\* C14, its case: an inline manifest and a manifest file holding different
\* routes; the load returned the inline ones.
C14_Witness ==
    /\ SkipFlagOff
    /\ l_pc = "loaded"
    /\ InlineGiven
    /\ l_file.exists
    /\ l_static = <<>>
    /\ \E rs \in LoadManifests :
          /\ Len(rs) = 1
          /\ l_inline.text = write_manifest(Payload(rs, "chute"))
          /\ l_file.text # l_inline.text
          /\ l_file.text \in {write_manifest(Payload(fs, "chute")) :
                                 fs \in LoadManifests}
          /\ l_result.routes = rs

\* the texts of the two accepted shapes
IsRoutesDocument(text, rs) ==
    \/ text = write_manifest(Payload(rs, "chute"))
    \/ text = BareDocument(rs)

\* C15: an inline manifest that is an object with a `routes` array or a
\* bare array of route objects loads as that route list; every other text
\* (not JSON, a scalar, an object whose `routes` is not an array, an object
\* without `routes`) makes the load raise ValueError.
C15_ParseShapes ==
    SkipFlagOff /\ InlineGiven /\ l_static = <<>> /\ LoadEnded =>
        IF \E rs \in LoadManifests : IsRoutesDocument(l_inline.text, rs)
        THEN \A rs \in LoadManifests :
                IsRoutesDocument(l_inline.text, rs) =>
                    l_result.kind = "returned" /\ l_result.routes = rs
        ELSE l_result.kind = "raised" /\ l_result.exc = "ValueError"

\* C16: a manifest persisted with write_manifest and loaded from that file
\* (no inline manifest, no static_routes, skip flag off) comes back with
\* the same (path, method, port, target_path, stream) tuples in the same
\* order.
C16_RoundTrip ==
    l_written.done /\ SkipFlagOff /\ ~InlineGiven /\ l_static = <<>>
    /\ LoadEnded =>
        /\ l_result.kind = "returned"
        /\ TuplesOf(l_result.routes) = TuplesOf(l_written.routes)

\* C16, its case: two routes, one of them streaming and one without a
\* method, written and loaded back.
C16_Witness ==
    /\ l_written.done
    /\ SkipFlagOff
    /\ ~InlineGiven
    /\ l_static = <<>>
    /\ l_pc = "loaded"
    /\ Len(l_written.routes) = 2
    /\ l_written.routes[1].method = NoMethod
    /\ l_written.routes[2].stream
    /\ Len(l_result.routes) = 2

(* ---- _wait_for_port, wait_for_services ---- *)
\* the ports, by index, that were tried without any attempt succeeding
WaitTried == {w_attempts[k].i : k \in 1..Len(w_attempts)}

WaitReached == {w_attempts[k].i : k \in {n \in 1..Len(w_attempts) : w_attempts[n].ok}}

WaitFailed == WaitTried \ WaitReached

\* the port wait at index i is over
WaitOver(i) == i < w_i \/ (i = w_i /\ w_pc = "raised")

C17_Safe ==
    /\ \A k \in 1..Len(w_attempts) :
          w_attempts[k].ok =>
              \A n \in (k + 1)..Len(w_attempts) : w_attempts[n].i # w_attempts[k].i
    /\ \A i \in WaitReached : WaitOver(i)
    /\ w_pc = "raised" =>
          /\ w_i \in WaitFailed
          /\ w_exc = [exc |-> "RuntimeError", host |-> w_host,
                      port |-> w_ports[w_i]]

C17_Step ==
    /\ w_pc = "for" /\ w_pc' = "connect" => w_deadline' = w_now + w_timeout
    /\ w_pc \in {"connect", "except"} => w_deadline' = w_deadline
    /\ w_pc = "except" /\ w_pc' \in {"for", "raised"} => w_now >= w_deadline

\* C17: a _wait_for_port call returns at its first successful connection
\* attempt (no further attempt is made on that port); when no attempt
\* succeeds it raises RuntimeError naming host and port, and only once the
\* clock has reached the deadline computed at entry; and every call that
\* has started trying ends, by returning or raising.
C17_PortWaitTerminates ==
    /\ []C17_Safe
    /\ [][C17_Step]_vars
    /\ (w_pc \in {"connect", "except"}) ~> (w_pc \in {"for", "raised", "returned"})

\* C17, its case: a wait with a positive timeout that failed, slept, failed
\* again and raised for its port.
C17_Witness ==
    /\ w_pc = "raised"
    /\ w_timeout > 0
    /\ Len(w_attempts) >= 2
    /\ w_attempts[Len(w_attempts)].i = 1
    /\ w_exc.port = w_ports[1]

\* C18: without soft_fail the first port that times out ends
\* wait_for_services with its exception and no later port is tried; with
\* soft_fail nothing is raised, every port is tried, and the returned list
\* holds one error per failed port, in port order, naming host and port.
C18_BatchProbe ==
    /\ ~w_soft /\ w_pc = "raised" =>
          /\ \A k \in 1..Len(w_attempts) : w_attempts[k].i <= w_i
          /\ WaitFailed = {w_i}
          /\ w_exc.port = w_ports[w_i]
    /\ ~w_soft /\ w_pc = "returned" =>
          /\ WaitFailed = {}
          /\ w_errors = <<>>
    /\ w_soft => w_pc # "raised" /\ w_exc.exc = "none"
    /\ w_soft /\ w_pc = "returned" =>
          /\ WaitTried = 1..Len(w_ports)
          /\ Len(w_errors) = Cardinality(WaitFailed)
          /\ \A i \in WaitFailed :
                LET e == w_errors[Cardinality({j \in WaitFailed : j <= i})]
                IN  e.host = w_host /\ e.port = w_ports[i]

\* C18, its case: a soft call on two ports of which the first timed out and
\* the second was reached.
C18_Witness ==
    /\ w_soft
    /\ w_pc = "returned"
    /\ Len(w_ports) = 2
    /\ WaitFailed = {1}
    /\ WaitReached = {2}
    /\ Len(w_errors) = 1

(* ---- fetch_spec, fetch_spec_with_retry ---- *)
\* the probes requested by the a-th fetch_spec call, in order
RequestedIn(a) ==
    LET rq == SelectSeq(f_requested, LAMBDA r : r.attempt = a)
    IN  [k \in 1..Len(rq) |-> rq[k].probe]

FetchEnded == f_pc \in {"returned", "raised"}

\* the last fetch_spec call has ended by raising
LastFetchFailed == f_pc \in {"sleep", "while", "raised"} /\ f_attempt > 0

\* C19: every fetch_spec call requests the candidates in list order, each
\* at most once; it returns only a JSON object with a `paths` key, the
\* first one met, and requests nothing after it; a candidate that errors or
\* whose document lacks `paths` never ends the call, which fails only when
\* every candidate has been requested, with RuntimeError naming base_url.
C19_FirstValidCandidate ==
    /\ \A a \in 1..f_attempt :
          RequestedIn(a) = SubSeq(f_paths, 1, Len(RequestedIn(a)))
    /\ f_pc = "returned" =>
          /\ f_result.kind = "returned"
          /\ f_result.doc = "object_paths"
          /\ f_resp = "object_paths"
    /\ LastFetchFailed => RequestedIn(f_attempt) = f_paths
    /\ f_pc = "raised" =>
          /\ f_result.kind = "raised"
          /\ f_result.exc = [exc |-> "RuntimeError", base_url |-> f_base_url]

Retrying == f_fn = "fetch_spec_with_retry"

C20_Safe ==
    Retrying =>
        /\ \A a \in 1..(f_attempt - 1) : RequestedIn(a) = f_paths
        /\ f_pc = "returned" =>
              /\ f_result.kind = "returned"
              /\ f_resp \in {"object_paths", "text_paths"}
              /\ RequestedIn(f_attempt) # <<>>
        /\ f_pc = "raised" =>
              /\ f_now >= f_deadline
              /\ f_result.exc = [exc |-> "RuntimeError", base_url |-> f_base_url]
              /\ f_attempt > 0 => f_result.exc = f_last_exc

C20_Step ==
    Retrying =>
        /\ f_pc # "call" => f_deadline' = f_deadline
        /\ f_attempt' # f_attempt /\ f_attempt > 0 =>
              /\ f_pc = "while"
              /\ f_now < f_deadline
        /\ f_pc = "sleep" => f_now' = f_now + 5 /\ f_pc' = "while"
        /\ f_pc = "while" /\ f_now < f_deadline => f_pc' = "probe" /\ f_k' = 1
        /\ FetchEnded => UNCHANGED fvars

\* C20: fetch_spec_with_retry calls fetch_spec again after each failed
\* call while the deadline computed at entry has not passed, sleeping 5 s
\* after each failure; it returns the first result fetch_spec returns and
\* makes no further call; once the deadline has passed it raises the last
\* failure, RuntimeError naming base_url; and it always ends, by returning
\* a schema or by raising.
C20_RetryUntilDeadline ==
    /\ []C20_Safe
    /\ [][C20_Step]_vars
    /\ <>(Retrying => FetchEnded)

(***************************************************************************)
(* C21..C30                                                                *)
(***************************************************************************)

\* the step in which fetch_spec_with_retry ends with an exception for the
\* port under probe
FetchFailedStep == pc = "fetch" /\ pc' # "extract"

\* the step in which the schema fetched for the port under probe is
\* converted
SchemaExtractStep == pc = "extract" /\ spec.kind = "schema"

\* C21: a port whose schema cannot be fetched contributes no route and the
\* run goes on with the next port; a port that yielded a schema contributes
\* extract_routes of it, appended after the routes of the earlier ports, each
\* route carrying the container port under probe.
C21_Step ==
    /\ FetchFailedStep =>
         /\ pc' = "loop"
         /\ idx' = idx + 1
         /\ routes' = routes
         /\ exc' = NoExc
    /\ SchemaExtractStep =>
         /\ pc' = "loop"
         /\ idx' = idx + 1
         /\ routes' = routes \o extract_routes(spec.paths, ports[idx])
         /\ \A i \in (Len(routes) + 1)..Len(routes') :
              routes'[i].port = ports[idx]

C21_PerPortFailuresDegrade == [][C21_Step]_vars

\* the events stop_container appends for container id
TeardownEvents(id, stop_ok, rm_ok) ==
    <<Event("stop_container", id, 0, TRUE),
      Event("docker_stop", id, 0, stop_ok),
      Event("docker_rm", id, 0, rm_ok)>>

\* C22: stop_container attempts `docker stop` and then `docker rm -f` of the
\* same container, the removal also after a failed stop, and raises nothing:
\* the exception in flight (or its absence) and the routes collected are the
\* same after the call as before, and the caller's outcome is the one of the
\* probe sequence.
C22_Step ==
    pc = "stop" =>
        /\ \E stop_ok \in BOOLEAN, rm_ok \in BOOLEAN :
             trace' = trace \o TeardownEvents(container_id, stop_ok, rm_ok)
        /\ exc' = exc
        /\ routes' = routes
        /\ pc' = "finish"

C22_Outcome ==
    outcome # "none" /\ container_id # NoId =>
        (outcome = "raised") = (exc # NoExc /\ ~RunCaught(fn, exc))

C22_StopNeverFails == []C22_Outcome /\ [][C22_Step]_vars

\* a run whose probe sequence succeeded returns its routes although both
\* `docker stop` and `docker rm -f` failed
C22_Witness ==
    /\ outcome = "returned"
    /\ exc = NoExc
    /\ routes # <<>>
    /\ Len(trace) >= 3
    /\ SubSeq(trace, Len(trace) - 2, Len(trace)) =
         TeardownEvents(container_id, FALSE, FALSE)

NoRepeat(s) == \A i, j \in 1..Len(s) : s[i] = s[j] => i = j

\* C24: pick_host_port tries at most the retry budget of candidates before
\* it falls back to an OS-assigned port, and the host ports one
\* start_container call assigns to its container ports are pairwise
\* different.
C24_OnePortPerContainerPort ==
    \A r \in Runs :
        /\ a_tries[r] <= MaxAttempts
        /\ Len(a_map[r]) <= Len(a_ports[r])
        /\ NoRepeat(a_map[r])

\* the runs whose port mapping is complete and not yet given up
Allocated == {r \in Runs : a_pc[r] \in {"run", "probe"}}

\* C23: two concurrent runs hold different container handles, no host port
\* is in the mapping of both, and a run stops and removes its own container
\* only.
C23_DisjointRuns ==
    /\ \A r, q \in Runs :
         r # q /\ a_cid[r] # NoId => a_cid[q] # a_cid[r]
    /\ \A t \in a_torn : \A q \in Runs : q # t[1] => a_cid[q] # t[2]
    /\ \A r, q \in Allocated :
         r # q => Range(a_map[r]) \cap Range(a_map[q]) = {}

\* the run's start_container call found its container not running
Crashed == TraceIdx({"docker_logs"}) # {}

\* C25: start_container hands out a container id only on the path where the
\* container was seen running; on the crash path it reads the logs, then
\* issues `docker rm -f` once, and raises: no id reaches the caller and
\* stop_container is never called in that run.
C25_CrashedNeverHandled ==
    /\ container_id # NoId =>
         /\ ~Crashed
         /\ \E k \in TraceIdx({"docker_run"}) :
              /\ trace[k].ok
              /\ trace[k].id = container_id
              /\ k < Len(trace)
              /\ trace[k + 1].op = "start_container"
    /\ Crashed =>
         /\ container_id = NoId
         /\ exc = "RuntimeError"
         /\ \A k \in TraceIdx({"docker_logs"}) :
              /\ k > 1 /\ k < Len(trace)
              /\ trace[k - 1].op = "docker_run"
              /\ trace[k + 1].op = "docker_rm"
              /\ trace[k + 1].id = trace[k - 1].id
         /\ Cardinality(TraceIdx({"docker_rm"})) = 1
         /\ TraceIdx({"stop_container", "docker_stop"}) = {}
         /\ pc \in {"finish", "done"}
         /\ outcome # "none" =>
              (outcome = "raised") = (fn = "discover_from_chute_file")

\* a discovery run that ended with the failure of a crashed start
C25_Witness ==
    /\ Crashed
    /\ fn = "discover_from_chute_file"
    /\ outcome = "raised"
    /\ TraceIdx({"docker_rm"}) # {}

\* C26: the function names issued for the routes of one generator run are
\* pairwise different; the first route of a base name gets the base name and
\* a later one the base name with a numeric suffix.
C26_DistinctFunctionNames ==
    /\ NoRepeat(n_names)
    /\ \A k \in 1..Len(n_names) :
         LET base == BaseName(n_routes[k])
             before == Cardinality({j \in 1..(k - 1) :
                                      BaseName(n_routes[j]) = base})
         IN n_names[k] = IF before = 0 THEN base
                         ELSE base \o <<"_">> \o Str(before + 1)

\* C27: from the start of a discover_from_chute_file run on, the skip flag
\* is set in the environment, and every load_route_manifest call made after
\* the run has ended returns the empty list without reading any source.
C27_SkipFlagStaysSet ==
    fn = "discover_from_chute_file" =>
        /\ l_skip = "1"
        /\ l_pc # "off" => l_result = LoadReturned(<<>>, <<>>)

\* a failed discovery run followed by a call with an inline manifest, a
\* manifest file and static routes at hand
C27_Witness ==
    /\ fn = "discover_from_chute_file"
    /\ outcome = "raised"
    /\ l_pc = "loaded"
    /\ l_inline.set /\ l_file.exists /\ l_static # <<>>
    /\ l_result.routes = <<>>

\* the probe loop went through all ports of the run
LoopCompleted == pc \in {"stop", "finish", "done"} /\ idx > Len(ports)

\* the last calls of the run were the teardown of its container
TornDown ==
    /\ Len(trace) >= 3
    /\ \E stop_ok \in BOOLEAN, rm_ok \in BOOLEAN :
         SubSeq(trace, Len(trace) - 2, Len(trace)) =
            TeardownEvents(container_id, stop_ok, rm_ok)

\* C28: discover_from_chute_file returns only with at least one route; when
\* the loop is over without any route it raises, after the teardown of the
\* container, whereas perform_live_discovery then returns no routes and no
\* handled ports.
C28_NoEmptyManifest ==
    /\ fn = "discover_from_chute_file" /\ outcome = "returned" =>
         routes # <<>>
    /\ LoopCompleted /\ routes = <<>> /\ outcome # "none" =>
         /\ TornDown
         /\ IF fn = "discover_from_chute_file"
            THEN outcome = "raised" /\ exc = "RuntimeError"
            ELSE outcome = "returned" /\ exc = NoExc /\ handled_ports = {}

\* two ports were probed, none gave a route, and the run raised
C28_Witness ==
    /\ fn = "discover_from_chute_file"
    /\ Len(ports) = 2
    /\ LoopCompleted
    /\ routes = <<>>
    /\ outcome = "raised"
    /\ \E k \in TraceIdx({"fetch_spec_with_retry"}) : ~trace[k].ok
    /\ \E k \in TraceIdx({"extract_routes"}) : trace[k].ok

\* the static routes whose key is not in the manifest but earlier in
\* static_routes
RepeatedStaticIdx ==
    {j \in 1..Len(m_static) :
        /\ ManifestIdx(KeyOf(m_static[j])) = {}
        /\ \E i \in 1..(j - 1) : KeyOf(m_static[i]) = KeyOf(m_static[j])}

\* the first static route with the key of m_static[j]
FirstDeclared(j) ==
    m_static[CHOOSE i \in NewStaticIdx : KeyOf(m_static[i]) = KeyOf(m_static[j])]

\* C29: a manifest with pairwise different keys gives a result with pairwise
\* different keys whatever static_routes holds; a static route that repeats
\* the key of an earlier static route is not added but compared with the
\* first one declared: a conflict warning naming that one if port or
\* target_path differ, a logged duplicate otherwise.
C29_UniqueKeysKept ==
    (m_pc = "done" /\ UniqueKeys(m_manifest)) =>
        /\ UniqueKeys(m_out.routes)
        /\ \A j \in RepeatedStaticIdx :
             LET first == FirstDeclared(j) IN
             /\ Cardinality({k \in 1..Len(m_out.routes) :
                   KeyOf(m_out.routes[k]) = KeyOf(m_static[j])}) = 1
             /\ \E k \in 1..Len(m_out.routes) : m_out.routes[k] = first
             /\ IF \/ m_static[j].port # first.port
                   \/ m_static[j].target_path # first.target_path
                THEN \E k \in 1..Len(m_out.warnings) :
                        /\ m_out.warnings[k].static = m_static[j]
                        /\ m_out.warnings[k].discovered = first
                ELSE \E k \in 1..Len(m_out.duplicates) :
                        m_out.duplicates[k] = KeyOf(m_static[j])

\* a discovered route and two static routes that share a key new to the
\* manifest and differ in their port
C29_Witness ==
    /\ m_pc = "done"
    /\ Len(m_manifest) = 1
    /\ RepeatedStaticIdx = {2}
    /\ m_static[1].port # m_static[2].port
    /\ m_out.routes = Append(m_manifest, m_static[1])

\* the connection attempts made for the port at index i
AttemptsOf(i) == {k \in 1..Len(w_attempts) : w_attempts[k].i = i}

\* the port at index i accepted the first connection attempt made for it
ListeningAtOnce(i) ==
    AttemptsOf(i) # {} /\
    w_attempts[CHOOSE k \in AttemptsOf(i) : \A n \in AttemptsOf(i) : k <= n].ok

C30_State ==
    /\ Len(w_errors) = Cardinality({j \in WaitFailed : j < w_i})
    /\ \A i \in 1..Len(w_ports) :
        /\ WaitOver(i) => AttemptsOf(i) # {}
        /\ ListeningAtOnce(i) =>
             /\ Cardinality(AttemptsOf(i)) = 1
             /\ i < w_i
             /\ w_exc = NoTimeout \/ w_exc.port # w_ports[i] \/ w_i # i
        /\ w_timeout = 0 => Cardinality(AttemptsOf(i)) <= 1

C30_Step ==
    (w_errors' # w_errors \/ w_exc' # w_exc) =>
        /\ w_pc = "except"
        /\ w_attempts # <<>>
        /\ w_attempts[Len(w_attempts)] = [i |-> w_i, ok |-> FALSE]

\* C30: _wait_for_port times out only after a failed connection attempt, so
\* every wait that is over made at least one attempt; a port that accepts
\* the first attempt is ready after that one attempt whatever the timeout,
\* and with timeout 0 a wait makes exactly one attempt before it fails.
C30_AttemptBeforeTimeout == []C30_State /\ [][C30_Step]_vars

\* timeout 0: the first port refused its single attempt and timed out, the
\* second accepted its single attempt
C30_Witness ==
    /\ w_timeout = 0
    /\ w_soft
    /\ w_pc = "returned"
    /\ Len(w_ports) = 2
    /\ WaitFailed = {1}
    /\ WaitReached = {2}
    /\ Len(w_attempts) = 2
    /\ Len(w_errors) = 1

====
